---- MODULE Spec2Model ----
(***************************************************************************)
(* A model of the AIChallenge integrations: the error analyzer's context   *)
(* budgeting and file selection (agents/error_analyzer.py), the ticket     *)
(* creator (agent/create_tickets.py), the Confluence scraper               *)
(* (sync_confluence.py, agents/create_files.py), the chatbot's chunking    *)
(* and vector store (features/chatbot.py), and the error-analysis feature  *)
(* and endpoint (features/error_analysis.py, api.py).                      *)
(*                                                                         *)
(* Strings are modelled by what the code reads of them: their length, the  *)
(* lines they split into, the substring tests that hold of them.  Each     *)
(* component has its own variables and its own specification; a            *)
(* specification leaves the other components' variables idle.              *)
(***************************************************************************)
EXTENDS Integers, Sequences, FiniteSets, TLC

VARIABLES
    \* ---- ErrorAnalyzer._smart_truncate_content (one call)
    trunc_pc,          \* "call" | "done"
    content,           \* the file content: a sequence of lines
    max_chars,         \* the max_chars argument
    truncated,         \* the returned string: a sequence of pieces joined by "\n"
    \* ---- ErrorAnalyzer.prepare_analysis_context (one call)
    ctx_pc,            \* "loop" | "done"
    error_len,         \* len(error_message)
    relevant_files,    \* the relevant_files argument
    context_len,       \* len(context)
    current_length,    \* the local current_length
    files_included,    \* the local files_included
    included,          \* indices of the files whose section is in the context
    omitted,           \* paths named by the omission notice (<< >>: no notice)
    \* ---- ErrorAnalyzer.ai_select_relevant_files (one call)
    sel_pc,            \* "call" | "done"
    all_files,         \* the all_files argument
    error_message,     \* the error_message argument
    max_files,         \* the max_files argument
    llm,               \* what the chat-completion API does when asked
    sel_result,        \* the returned list of paths
    sel_raised,        \* TRUE when the call ended with an exception
    \* ---- JIRACreator.create_ticket (one call)
    tk_pc,             \* "call" | "done"
    ticket,            \* the arguments
    tk_result,         \* the kind of string returned
    tk_posts,          \* the POST requests sent to the issue tracker
    \* ---- WebScraper.get_confluence_pages (one call)
    pg_pc,             \* "loop" | "follow" | "done"
    wiki_server,       \* the responses of the wiki: [results, next]
    data,              \* the response held in the local data (its number)
    all_pages,         \* the local all_pages
    requested,         \* the responses requested so far, in order
    \* ---- WebScraper.write_confluence_data_to_blob_storage (two runs in a row)
    bl_pc,             \* "spaces" | "pages" | "done"
    bl_run,            \* 1: the first run, 2: the second
    wiki,              \* the pages of each space of Space_Keys
    space_i,           \* the position in Space_Keys of the loop over the spaces
    page_i,            \* the position in pages of the loop over the pages
    blobs,             \* the container: a set of <<blob name, content>>
    total_uploaded,    \* the counters of the summary
    total_updated,
    total_skipped,
    uploads,           \* the blob names upload_blob wrote in this run
    bl_faulty,         \* TRUE when downloads and uploads of the storage may fail
    bl_log,            \* what happened to each page of this run, in order
    \* ---- Knowledge.safe_chunks (one call)
    ch_pc,             \* "call" | "done"
    text,              \* the text argument
    max_tokens,        \* the max_tokens argument
    safe,              \* the returned list of chunks
    \* ---- ErrorAnalyzer.analyze_error (one call)
    an_pc,             \* "parse" | "extract" | "prepare" | "analyse" | "done"
    an_input,          \* repo_url and the kind of progress_callback given
    an_progress,       \* the messages the progress_callback has been called with
    an_files,          \* the local relevant_files (their paths)
    an_result,         \* how the call ended
    an_requests,       \* the APIs the call has sent a request to
    \* ---- ErrorAnalysisFeature.analyze_error_with_ai (one generator, consumed)
    ft_pc,             \* "off" | "validate" | "analyzing" | "done"
    ft_input,          \* error_message and repo_url
    ft_yielded,        \* what the generator has yielded, in order
    \* ---- api.analyze_error, POST /api/error-analysis (one request)
    api_pc,            \* "off" | "check" | "consuming" | "done"
    api_request,       \* error_message and repo_url of the request body
    api_response,      \* the status answered and the number of updates in the text
    \* ---- ErrorAnalyzer.get_recently_changed_files (one call)
    chg_pc,            \* "commits" | "done"
    recent_commits,    \* what get_recent_commits returned: the changes of each commit
    commit_no,         \* the position in recent_commits of the loop
    changed_files,     \* the local changed_files: the dict's values in insertion order
    \* ---- Knowledge._create_vectorstore_with_rate_limiting (one call)
    vs_pc,             \* "loop" | "returned" | "raised"
    vs_chunks,         \* the chunks argument: the documents, numbered
    vs_i,              \* the loop variable i
    vectorstore,       \* the local vectorstore: 0 for None, else the store's number
    vs_stores,         \* the stores created so far
    vs_documents,      \* the documents of the store, in insertion order
    vs_calls,          \* the insertions called, in order, with how each ended
    \* ---- ErrorAnalyzer.perform_ai_analysis (one call)
    pa_pc,             \* "call" | "done"
    pa_env,            \* the credentials, the context and what the API answers
    pa_result,         \* how the call ended and what it returned
    \* ---- ErrorAnalyzer._extract_error_specific_files (one call)
    es_pc,             \* "start" | "search" | "done"
    es_listings,       \* what get_repo_structure returns for each path
    es_max_files,      \* the max_files argument
    es_stack,          \* the active calls of search_for_files, the innermost last
    es_deepest,        \* the largest depth search_for_files was called with
    found_files,       \* the local found_files (their paths)
    \* ---- update_knowledge_base of the UI (several updates side by side)
    ui_pc,             \* per update: "idle" | "poll" | "sleep" | "chunk" | "embed" | "monitor" | "done"
    ui_elapsed,        \* per update: time.time() - start_time as the fetch loop saw it
    ui_read,           \* per update: what process_confluence_data read, file by file
    fetch_pc,          \* per update: the fetch thread: "none" | "running" | "ended"
    fetch_i,           \* per update: the files the fetch thread has written
    fetch_open,        \* per update: the fetch thread holds a file open for writing
    directory,         \* File_Dir: the content of each file
    emb_pc,            \* per update: the embedding thread: "none" | "save" | "install" | "run" | "restore" | "ended"
    old_stdout,        \* per update: the local old_stdout of create_embeddings
    embedding_result,  \* per update: "none" | "success" | "error"
    sys_stdout         \* sys.stdout of the process

truncVars == <<trunc_pc, content, max_chars, truncated>>
ctxVars == <<ctx_pc, error_len, relevant_files, context_len, current_length,
             files_included, included, omitted>>
selVars == <<sel_pc, all_files, error_message, max_files, llm, sel_result, sel_raised>>
tkVars == <<tk_pc, ticket, tk_result, tk_posts>>
pgVars == <<pg_pc, wiki_server, data, all_pages, requested>>
blVars == <<bl_pc, bl_run, wiki, space_i, page_i, blobs, total_uploaded,
            total_updated, total_skipped, uploads, bl_faulty, bl_log>>
chVars == <<ch_pc, text, max_tokens, safe>>
anVars == <<an_pc, an_input, an_progress, an_files, an_result, an_requests>>
ftVars == <<ft_pc, ft_input, ft_yielded>>
apiVars == <<api_pc, api_request, api_response>>
chgVars == <<chg_pc, recent_commits, commit_no, changed_files>>
coreVars == <<truncVars, ctxVars, selVars, tkVars, pgVars, blVars, chVars, anVars>>
vsVars == <<vs_pc, vs_chunks, vs_i, vectorstore, vs_stores, vs_documents, vs_calls>>
paVars == <<pa_pc, pa_env, pa_result>>
lateVars == <<chgVars, vsVars, paVars>>
\* the components added after the analyzer
esVars == <<es_pc, es_listings, es_max_files, es_stack, es_deepest, found_files>>
uiVars == <<ui_pc, ui_elapsed, ui_read, fetch_pc, fetch_i, fetch_open, directory,
            emb_pc, old_stdout, embedding_result, sys_stdout>>
newVars == <<esVars, uiVars>>
extVars == <<ftVars, apiVars, lateVars, newVars>>
vars == <<truncVars, ctxVars, selVars, tkVars, pgVars, blVars, chVars, anVars,
          extVars>>

\* ------------------------------------------------------------------ helpers

RECURSIVE SumSeq(_)
SumSeq(s) == IF s = <<>> THEN 0 ELSE Head(s) + SumSeq(Tail(s))

Min(a, b) == IF a < b THEN a ELSE b
Max(a, b) == IF a > b THEN a ELSE b

\* len(str(n)) for n >= 0
RECURSIVE Digits(_)
Digits(n) == IF n < 10 THEN 1 ELSE 1 + Digits(n \div 10)

\* All sequences over S of length at most n.
SeqUpTo(S, n) == UNION {[1..k -> S] : k \in 0..n}

\* len('\n'.join(pieces)) for a list of piece lengths
JoinLen(lens) == IF lens = <<>> THEN 0 ELSE SumSeq(lens) + Len(lens) - 1

\* ------------------------------------------------------------------ bounds

MaxTail == 2        \* lines of a file content after its first 20 lines
MaxFiles == 2       \* files in relevant_files
MaxAllFiles == 3    \* files in all_files
MaxAnswer == 2      \* paths in the LLM's answer
MaxDescription == 4 \* pieces of a ticket description
MaxResponses == 3   \* distinct responses of the wiki's search endpoint
MaxRequests == 4    \* requests one get_confluence_pages call is followed for
MaxPages == 2       \* pages of one wiki space

\* ------------------------------------------------- _smart_truncate_content

\* A line of a file, as the scoring reads it: its length, the number of error
\* keywords (len > 3) it contains, whether it contains one of the code patterns
\* ('public', 'class', 'if ', ...) and one of the configuration patterns.
Line(len, kw, code, cfg) == [len |-> len, kw |-> kw, code |-> code, cfg |-> cfg]

LineKinds == { Line(60, 1, FALSE, FALSE),
               Line(3000, 0, TRUE, FALSE),
               Line(80, 0, FALSE, FALSE) }

HEAD_LINES == 20

\* len(content) of a content given as its lines (content.split('\n'))
ContentLen(lines) == JoinLen([i \in 1..Len(lines) |-> lines[i].len])

\* the score of one line
LineScore(l) == 10 * l.kw + (IF l.code THEN 3 ELSE 0) + (IF l.cfg THEN 2 ELSE 0)

\* scored_lines.sort(key=score, reverse=True): stable, so lines of equal score
\* keep their order. The result is the sequence of 0-based line numbers.
RECURSIVE SortByScore(_, _)
SortByScore(lines, left) ==
    IF left = {} THEN <<>>
    ELSE LET best == CHOOSE i \in left :
                        \A j \in left :
                            \/ LineScore(lines[i]) > LineScore(lines[j])
                            \/ LineScore(lines[i]) = LineScore(lines[j]) /\ i <= j
         IN  <<best - 1>> \o SortByScore(lines, left \ {best})

\* len(f"... (line {line_num + 1}) ...")
MarkerLen(line_num) == 15 + Digits(line_num + 1)

\* the loop over scored_lines: order is what is left of the sorted line numbers,
\* out the pieces so far, remaining the local remaining_chars
RECURSIVE AddRelevant(_, _, _, _)
AddRelevant(lines, order, out, remaining) ==
    IF order = <<>> THEN out
    ELSE LET line_num == Head(order)
             l == lines[line_num + 1]
         IN  IF LineScore(l) > 0 /\ line_num >= HEAD_LINES /\ l.len + 1 <= remaining
             THEN LET out2 == out \o << [kind |-> "marker", num |-> line_num,
                                         len |-> MarkerLen(line_num)],
                                        [kind |-> "line", num |-> line_num,
                                         len |-> l.len] >>
                      rem2 == remaining - (l.len + 1)
                  IN  IF rem2 < 100 THEN out2
                      ELSE AddRelevant(lines, Tail(order), out2, rem2)
             ELSE AddRelevant(lines, Tail(order), out, remaining)

WholeContent(lines) ==
    [i \in 1..Len(lines) |-> [kind |-> "line", num |-> i - 1, len |-> lines[i].len]]

smart_truncate_content(lines, maxc) ==
    IF ContentLen(lines) <= maxc THEN WholeContent(lines)
    ELSE LET nb == Min(HEAD_LINES, Len(lines))
             beginning == [i \in 1..nb |->
                              [kind |-> "line", num |-> i - 1, len |-> lines[i].len]]
             used_chars == JoinLen([i \in 1..nb |-> lines[i].len])
         IN  AddRelevant(lines, SortByScore(lines, 1..Len(lines)), beginning,
                         maxc - used_chars)

\* len() of a returned string
PiecesLen(pieces) == JoinLen([i \in 1..Len(pieces) |-> pieces[i].len])

HeadCounts == {1, HEAD_LINES}
HeadLens == {0, 40, 500}
MaxCharsInputs == {100, 1000, 8000}

\* a content: h equal first lines of length hl, then the lines of tail
MakeContent(h, hl, tail) == [i \in 1..h |-> Line(hl, 0, FALSE, FALSE)] \o tail

TruncIdle == /\ trunc_pc = "off" /\ content = <<>> /\ max_chars = 0 /\ truncated = <<>>

TruncInit ==
    /\ trunc_pc = "call"
    /\ \E h \in HeadCounts, hl \in HeadLens, tail \in SeqUpTo(LineKinds, MaxTail) :
           content = MakeContent(h, hl, tail)
    /\ max_chars \in MaxCharsInputs
    /\ truncated = <<>>

SmartTruncate ==
    /\ trunc_pc = "call"
    /\ truncated' = smart_truncate_content(content, max_chars)
    /\ trunc_pc' = "done"
    /\ UNCHANGED <<content, max_chars, ctxVars, selVars, tkVars, pgVars, blVars,
                   chVars, anVars, extVars>>

\* ------------------------------------------------- prepare_analysis_context

MAX_TOKENS == 100000
MAX_CHARS == MAX_TOKENS * 4
MAX_FILE_CHARS == 8000

\* len() of the f-strings of prepare_analysis_context with every field empty
HEADER_CHARS == 38            \* "ERROR MESSAGE:\n{}\n\nRELEVANT CODE FILES:\n"
SECTION_CHARS == 78           \* "--- FILE: {} ---" section
TRUNCATED_SECTION_CHARS == 169 \* "--- FILE: {} (TRUNCATED - {} chars total) ---" section
NOTICE_CHARS == 230           \* "--- ADDITIONAL FILES OMITTED ..." notice

Paths == {"a.cs", "src/b.cs"}
PathLen(p) == IF p = "a.cs" THEN 4 ELSE 8

\* len(repr(paths)) of a list of paths: "['a.cs', 'src/b.cs']"
RECURSIVE ReprLen(_)
ReprLen(paths) ==
    IF paths = <<>> THEN 2
    ELSE 2 + SumSeq([i \in 1..Len(paths) |-> PathLen(paths[i]) + 2])
           + 2 * (Len(paths) - 1)

FileContents == { MakeContent(1, 50, <<>>),
                  MakeContent(1, 9000, <<>>),
                  MakeContent(HEAD_LINES, 100,
                              << Line(3000, 0, TRUE, FALSE), Line(3000, 0, TRUE, FALSE),
                                 Line(60, 1, FALSE, FALSE) >>) }
FileInfos == [path : Paths, content : FileContents]
ErrLens == {10, 395000, 399900, 400100}

\* max_file_chars of the iteration that handles file number included_n + 1
MaxFileChars(cur, nfiles, included_n) ==
    Min(MAX_FILE_CHARS, (MAX_CHARS - cur) \div Max(1, nfiles - included_n))

\* len(file_section) for one file
FileSectionLen(file_info, maxc) ==
    LET clen == ContentLen(file_info.content)
    IN  IF clen > maxc
        THEN TRUNCATED_SECTION_CHARS + PathLen(file_info.path) + Digits(clen)
             + PiecesLen(smart_truncate_content(file_info.content, maxc))
        ELSE SECTION_CHARS + PathLen(file_info.path) + clen

\* len() of the omission notice for the files from number from_n + 1 on
NoticeLen(files, from_n) ==
    LET rest == SubSeq(files, from_n + 1, Len(files))
    IN  NOTICE_CHARS + Digits(Len(rest))
        + ReprLen([i \in 1..Len(rest) |-> rest[i].path])

\* the notice naming the files after the one that did not fit
OmittedPathsAfterFirst(files, from_n) ==
    [i \in 1..(Len(files) - from_n - 1) |-> files[from_n + 1 + i].path]

\* [f['path'] for f in relevant_files[files_included:]]
OmittedPaths(files, from_n) ==
    [i \in 1..(Len(files) - from_n) |-> files[from_n + i].path]

CtxIdle == /\ ctx_pc = "off" /\ error_len = 0 /\ relevant_files = <<>>
           /\ context_len = 0 /\ current_length = 0 /\ files_included = 0
           /\ included = <<>> /\ omitted = <<>>

\* the state before the loop: context holds the header
CtxInit ==
    /\ ctx_pc = "loop"
    /\ error_len \in ErrLens
    /\ relevant_files \in SeqUpTo(FileInfos, MaxFiles)
    /\ context_len = HEADER_CHARS + error_len
    /\ current_length = HEADER_CHARS + error_len
    /\ files_included = 0
    /\ included = <<>>
    /\ omitted = <<>>

\* one iteration of "for file_info in relevant_files"
PackFile ==
    /\ ctx_pc = "loop"
    /\ files_included < Len(relevant_files)
    /\ LET file_info == relevant_files[files_included + 1]
           maxc == MaxFileChars(current_length, Len(relevant_files), files_included)
           section == FileSectionLen(file_info, maxc)
       IN  IF current_length + section > MAX_CHARS
           THEN /\ context_len' = context_len + NoticeLen(relevant_files, files_included)
                /\ omitted' = OmittedPaths(relevant_files, files_included)
                /\ ctx_pc' = "done"
                /\ UNCHANGED <<current_length, files_included, included>>
           ELSE /\ context_len' = context_len + section
                /\ current_length' = current_length + section
                /\ files_included' = files_included + 1
                /\ included' = Append(included, files_included + 1)
                /\ UNCHANGED <<ctx_pc, omitted>>
    /\ UNCHANGED <<error_len, relevant_files, truncVars, selVars, tkVars, pgVars,
                   blVars, chVars, anVars, extVars>>

\* the loop ran out of files: return context
ReturnContext ==
    /\ ctx_pc = "loop"
    /\ files_included = Len(relevant_files)
    /\ ctx_pc' = "done"
    /\ UNCHANGED <<error_len, relevant_files, context_len, current_length,
                   files_included, included, omitted, truncVars, selVars, tkVars, pgVars, blVars, chVars, anVars, extVars>>

\* ------------------------------------------------- ai_select_relevant_files

\* The files of the repository, as get_recently_changed_files returns them
\* (path and name; supported extensions only).
RepoFiles == { [path |-> "src/PaymentService.cs", name |-> "PaymentService.cs"],
               [path |-> "payment/util.js", name |-> "util.js"],
               [path |-> "web.config", name |-> "web.config"],
               [path |-> "data/Repo.cs", name |-> "Repo.cs"] }
RepoPaths == {f.path : f \in RepoFiles}

\* "sub in s.lower()" for the strings of the model
Contains(sub, str) ==
    <<sub, str>> \in { <<"paymentservice", "PaymentService.cs">>,
                       <<"paymentservice", "src/PaymentService.cs">>,
                       <<"payment", "PaymentService.cs">>,
                       <<"payment", "src/PaymentService.cs">>,
                       <<"payment", "payment/util.js">>,
                       <<"data", "data/Repo.cs">>,
                       <<"repo", "Repo.cs">>,
                       <<"repo", "data/Repo.cs">>,
                       <<"config", "web.config">> }
EndsWith(str, exts) ==
    \/ ".cs" \in exts /\ str \in {"PaymentService.cs", "Repo.cs"}
    \/ ".config" \in exts /\ str = "web.config"

\* An error message, as the selection reads it: the words of error_lower that
\* pass the keyword filter, the lowered PascalCase words longer than 3, and the
\* substring tests on error_lower.
ErrorMessages ==
    { \* "PaymentService failed: timeout"
      [keywords |-> <<"paymentservice", "failed", "timeout">>,
       classes |-> <<"paymentservice">>,
       database |-> FALSE, config |-> FALSE, startup |-> FALSE],
      \* "SqlException: database timeout in payment"
      [keywords |-> <<"sqlexception", "database", "timeout", "payment">>,
       classes |-> <<"sqlexception">>,
       database |-> TRUE, config |-> FALSE, startup |-> FALSE],
      \* "Invalid configuration"
      [keywords |-> <<"invalid", "configuration">>,
       classes |-> <<"invalid">>,
       database |-> FALSE, config |-> TRUE, startup |-> FALSE],
      \* "PaymentService Repo crashed"
      [keywords |-> <<"paymentservice", "repo", "crashed">>,
       classes |-> <<"paymentservice", "repo">>,
       database |-> FALSE, config |-> FALSE, startup |-> FALSE],
      \* "oops"
      [keywords |-> <<"oops">>, classes |-> <<>>,
       database |-> FALSE, config |-> FALSE, startup |-> FALSE] }

\* the score of one file in _smart_file_selection_fallback
FileScore(file_info, err) ==
    LET kw == SumSeq([i \in 1..Len(err.keywords) |->
                        IF Contains(err.keywords[i], file_info.name) THEN 20
                        ELSE IF Contains(err.keywords[i], file_info.path) THEN 10
                        ELSE 0])
        cls == SumSeq([i \in 1..Len(err.classes) |->
                        IF Contains(err.classes[i], file_info.name) THEN 15
                        ELSE IF Contains(err.classes[i], file_info.path) THEN 8
                        ELSE 0])
        db == IF err.database
                 /\ \E pat \in {"data", "repository", "dbcontext", "sql"} :
                        Contains(pat, file_info.path)
              THEN 12 ELSE 0
        cfg == IF err.config /\ EndsWith(file_info.name, {".config", ".json", ".xml"})
               THEN 15 ELSE 0
        st == IF err.startup
                 /\ \E pat \in {"startup", "program", "main"} :
                        Contains(pat, file_info.name)
              THEN 15 ELSE 0
        base == kw + cls + db + cfg + st
    IN  IF base > 0 /\ EndsWith(file_info.name, {".cs", ".vb"}) THEN base + 2 ELSE base

\* s[:n] of Python
PyPrefix(s, n) ==
    IF n >= 0 THEN SubSeq(s, 1, Min(n, Len(s)))
    ELSE SubSeq(s, 1, Max(0, Len(s) + n))

\* a descending sort that puts the later of two files of equal score first
\* (an ascending sort, reversed)
RECURSIVE SortScoredTiesReversed(_, _)
SortScoredTiesReversed(scored, left) ==
    IF left = {} THEN <<>>
    ELSE LET best == CHOOSE i \in left :
                        \A j \in left :
                            \/ scored[i][2] > scored[j][2]
                            \/ scored[i][2] = scored[j][2] /\ i >= j
         IN  <<scored[best]>> \o SortScoredTiesReversed(scored, left \ {best})

\* scored_files.sort(key=score, reverse=True): stable. scored is a sequence of
\* <<path, score>>; the result lists the positions of scored in sorted order.
RECURSIVE SortScored(_, _)
SortScored(scored, left) ==
    IF left = {} THEN <<>>
    ELSE LET best == CHOOSE i \in left :
                        \A j \in left :
                            \/ scored[i][2] > scored[j][2]
                            \/ scored[i][2] = scored[j][2] /\ i <= j
         IN  <<scored[best]>> \o SortScored(scored, left \ {best})

\* the files with score > 0, in input order, as <<path, score>>
RECURSIVE ScoredFiles(_, _)
ScoredFiles(files, err) ==
    IF files = <<>> THEN <<>>
    ELSE LET score == FileScore(Head(files), err)
             rest == ScoredFiles(Tail(files), err)
         IN  IF score > 0 THEN << <<Head(files).path, score>> >> \o rest ELSE rest

\* the fallback without its [:max_files]
smart_file_selection_fallback_unbounded(files, err, maxf) ==
    LET scored == ScoredFiles(files, err)
        sorted == SortScored(scored, 1..Len(scored))
    IN  [i \in 1..Len(sorted) |-> sorted[i][1]]

smart_file_selection_fallback(files, err, maxf) ==
    LET scored == ScoredFiles(files, err)
        sorted == SortScored(scored, 1..Len(scored))
        top == PyPrefix(sorted, maxf)
    IN  [i \in 1..Len(top) |-> top[i][1]]

\* What the chat-completion API does: the credentials may be missing, the request
\* may raise, the status may differ from 200, the body may lack the expected
\* fields, and the answer may hold no bracket pair, a bracket pair that is no
\* JSON, or a JSON array (of paths, some of them not of the repository).
LlmFailures == {"no_credentials", "request_raises", "status_not_200", "bad_body",
                "no_brackets", "bad_json"}
AnswerPaths == RepoPaths \cup {"ghost.cs"}
LlmOutcomes == [kind : LlmFailures, paths : {<<>>}]
               \cup [kind : {"json_array"}, paths : SeqUpTo(AnswerPaths, MaxAnswer)]

\* [path for path in selected_paths if path in available_paths]
ValidPaths(selected_paths, files) ==
    SelectSeq(selected_paths, LAMBDA p : \E i \in 1..Len(files) : files[i].path = p)

\* The body of the outer try. exc: an exception reached the outer except;
\* returned: the body returned a value (otherwise it ran on to the fallback).
SelectTryBody(files, maxf, answer) ==
    CASE answer.kind = "no_credentials" ->
             [exc |-> FALSE, returned |-> FALSE, value |-> <<>>]
      [] answer.kind \in {"request_raises", "bad_body"} ->
             [exc |-> TRUE, returned |-> FALSE, value |-> <<>>]
      [] answer.kind \in {"status_not_200", "no_brackets", "bad_json"} ->
             [exc |-> FALSE, returned |-> FALSE, value |-> <<>>]
      [] OTHER ->
             LET valid_paths == ValidPaths(answer.paths, files)
             IN  IF valid_paths # <<>>
                 THEN [exc |-> FALSE, returned |-> TRUE,
                       value |-> PyPrefix(valid_paths, maxf)]
                 ELSE [exc |-> FALSE, returned |-> FALSE, value |-> <<>>]

\* the selection without its outer "except Exception"
ai_select_relevant_files_uncaught(files, err, maxf, answer) ==
    IF files = <<>> THEN [raised |-> FALSE, value |-> <<>>]
    ELSE LET body == SelectTryBody(files, maxf, answer)
         IN  IF body.exc
             THEN [raised |-> TRUE, value |-> <<>>]
             ELSE IF body.returned
             THEN [raised |-> FALSE, value |-> body.value]
             ELSE [raised |-> FALSE,
                   value |-> smart_file_selection_fallback(files, err, maxf)]

ai_select_relevant_files(files, err, maxf, answer) ==
    IF files = <<>> THEN [raised |-> FALSE, value |-> <<>>]
    ELSE LET body == SelectTryBody(files, maxf, answer)
         IN  IF body.exc          \* except Exception: use the fallback
             THEN [raised |-> FALSE,
                   value |-> smart_file_selection_fallback(files, err, maxf)]
             ELSE IF body.returned
             THEN [raised |-> FALSE, value |-> body.value]
             ELSE [raised |-> FALSE,
                   value |-> smart_file_selection_fallback(files, err, maxf)]

\* sequences over S without repetition, of length at most n
InjSeqUpTo(S, n) ==
    {s \in SeqUpTo(S, n) : \A i, j \in 1..Len(s) : i # j => s[i] # s[j]}

MaxFilesInputs == {0, 1, 2}

SelIdle == /\ sel_pc = "off" /\ all_files = <<>> /\ error_message = <<>>
           /\ max_files = 0 /\ llm = <<>> /\ sel_result = <<>> /\ sel_raised = FALSE

SelInit ==
    /\ sel_pc = "call"
    /\ all_files \in InjSeqUpTo(RepoFiles, MaxAllFiles)
    /\ error_message \in ErrorMessages
    /\ max_files \in MaxFilesInputs
    /\ llm \in LlmOutcomes
    /\ sel_result = <<>>
    /\ sel_raised = FALSE

SelectFiles ==
    /\ sel_pc = "call"
    /\ LET r == ai_select_relevant_files(all_files, error_message, max_files, llm)
       IN  /\ sel_result' = r.value
           /\ sel_raised' = r.raised
    /\ sel_pc' = "done"
    /\ UNCHANGED <<all_files, error_message, max_files, llm, truncVars, ctxVars,
                   tkVars, pgVars, blVars, chVars, anVars, extVars>>

\* ------------------------------------------------- JIRACreator.create_ticket

\* A description is a sequence of pieces: the three markers 'User Story',
\* 'Acceptance Criteria' and 'Scenarios' (no two of them can overlap in a
\* string), other text, and whitespace.
US == "User Story"
AC == "Acceptance Criteria"
SC == "Scenarios"
DescriptionPieces == {US, AC, SC, "text", " "}

\* description.index(marker): the first position (0-based), or -1 for ValueError
RECURSIVE IndexFrom(_, _, _)
IndexFrom(desc, marker, i) ==
    IF i > Len(desc) THEN -1
    ELSE IF desc[i] = marker THEN i - 1
    ELSE IndexFrom(desc, marker, i + 1)
Index(desc, marker) == IndexFrom(desc, marker, 1)

\* description[a:b] for 0 <= a, b
PySlice(desc, a, b) == SubSeq(desc, a + 1, Min(b, Len(desc)))

\* str.strip()
RECURSIVE Strip(_)
Strip(str) ==
    IF str = <<>> THEN <<>>
    ELSE IF Head(str) = " " THEN Strip(Tail(str))
    ELSE IF str[Len(str)] = " " THEN Strip(SubSeq(str, 1, Len(str) - 1))
    ELSE str

JIRA_EMAIL == "default@example.com"
JIRA_API_TOKEN == "default-token"

\* the account of the Authorization header, mixing the user's email with the
\* default token when only the token is missing
CredentialsMixed(email, API_token) ==
    <<IF email = "" THEN JIRA_EMAIL ELSE email,
      IF API_token = "" THEN JIRA_API_TOKEN ELSE API_token>>

\* the account of the Authorization header: <<email, token>>
Credentials(email, API_token) ==
    IF email = "" \/ API_token = ""
    THEN <<JIRA_EMAIL, JIRA_API_TOKEN>>
    ELSE <<email, API_token>>

\* the three sections, without the check that none of them is empty
SectionsUnchecked(description) ==
    LET first_index == Index(description, US)
        second_index == Index(description, AC)
        third_index == Index(description, SC)
    IN  IF first_index < 0 \/ second_index < 0 \/ third_index < 0
        THEN [ok |-> FALSE, panels |-> <<>>]
        ELSE [ok |-> TRUE,
              panels |-> << Strip(PySlice(description, first_index, second_index)),
                            Strip(PySlice(description, second_index, third_index)),
                            Strip(PySlice(description, third_index, Len(description))) >>]

\* the inner try: the three sections (ok), or the error message (not ok)
Sections(description) ==
    LET first_index == Index(description, US)
        second_index == Index(description, AC)
        third_index == Index(description, SC)
    IN  IF first_index < 0 \/ second_index < 0 \/ third_index < 0   \* ValueError
        THEN [ok |-> FALSE, panels |-> <<>>]
        ELSE LET user_story == Strip(PySlice(description, first_index, second_index))
                 acceptance_criteria ==
                     Strip(PySlice(description, second_index, third_index))
                 testing == Strip(PySlice(description, third_index, Len(description)))
             IN  IF user_story = <<>> \/ acceptance_criteria = <<>> \/ testing = <<>>
                 THEN [ok |-> FALSE, panels |-> <<>>]
                 ELSE [ok |-> TRUE,
                       panels |-> <<user_story, acceptance_criteria, testing>>]

\* what the issue tracker does with a POST
TrackerOutcomes == {"created", "created_no_key", "rejected", "raises"}

TicketInputs ==
    [summary : {"", "Fix login"}, description : SeqUpTo(DescriptionPieces, MaxDescription),
     issue_type : {"", "Task"}, project_key : {"", "BMS"},
     email : {"", "user@example.com"}, API_token : {"", "user-token"}]

TkIdle == /\ tk_pc = "off" /\ ticket = <<>> /\ tk_result = "" /\ tk_posts = <<>>

TkInit ==
    /\ tk_pc = "call"
    /\ ticket \in TicketInputs
    /\ tk_result = ""
    /\ tk_posts = <<>>

CreateTicket ==
    /\ tk_pc = "call"
    /\ tk_pc' = "done"
    /\ IF ticket.summary = "" \/ ticket.description = <<>> \/ ticket.issue_type = ""
          \/ ticket.project_key = ""
       THEN /\ tk_result' = "all_fields_required"
            /\ UNCHANGED tk_posts
       ELSE LET auth == Credentials(ticket.email, ticket.API_token)
                sections == Sections(ticket.description)
            IN  IF ~sections.ok
                THEN /\ tk_result' = "sections_missing"
                     /\ UNCHANGED tk_posts
                ELSE /\ tk_posts' = Append(tk_posts,
                                           [auth |-> auth, project |-> ticket.project_key,
                                            summary |-> ticket.summary,
                                            issuetype |-> ticket.issue_type,
                                            panels |-> sections.panels])
                     /\ \E outcome \in TrackerOutcomes :
                            tk_result' = CASE outcome = "created" -> "ticket_created"
                                           [] outcome = "rejected" -> "failed"
                                           [] OTHER -> "error"
    /\ UNCHANGED <<ticket, truncVars, ctxVars, selVars, pgVars, blVars, chVars, anVars, extVars>>

\* ------------------------------------------------- WebScraper.get_confluence_pages

\* The wiki answers the first request with response 1; a response holds a list
\* of results and a next link: the number of the response the link leads to, or
\* 0 for a response without '_links.next'.
ResultLists == {<<>>, <<"p">>, <<"p", "q">>}
WikiServers ==
    UNION { [1..n -> [results : ResultLists, next : 0..n]] : n \in 1..MaxResponses }

\* data.get("results", [])
Results(server, d) == server[d].results
\* data.get("_links", {}).get("next")
NextLink(server, d) == server[d].next

PgIdle == /\ pg_pc = "off" /\ wiki_server = <<>> /\ data = 0 /\ all_pages = <<>>
          /\ requested = <<>>

\* the state after the initial request
PgInit ==
    /\ pg_pc = "loop"
    /\ wiki_server \in WikiServers
    /\ data = 1
    /\ all_pages = <<>>
    /\ requested = <<1>>

\* the loop body up to the check of the next link, with the check made before
\* the results are appended
ExtendPagesBreakFirst ==
    /\ pg_pc = "loop"
    /\ IF NextLink(wiki_server, data) = 0
       THEN pg_pc' = "done" /\ UNCHANGED all_pages
       ELSE pg_pc' = "follow" /\ all_pages' = all_pages \o Results(wiki_server, data)
    /\ UNCHANGED <<wiki_server, data, requested, truncVars, ctxVars, selVars, tkVars,
                   blVars, chVars, anVars, extVars>>

\* the loop body up to the check of the next link
ExtendPages ==
    /\ pg_pc = "loop"
    /\ all_pages' = all_pages \o Results(wiki_server, data)
    /\ pg_pc' = IF NextLink(wiki_server, data) = 0 THEN "done" ELSE "follow"
    /\ UNCHANGED <<wiki_server, data, requested, truncVars, ctxVars, selVars, tkVars,
                   blVars, chVars, anVars, extVars>>

\* follow the next link
FollowNext ==
    /\ pg_pc = "follow"
    /\ Len(requested) < MaxRequests
    /\ data' = NextLink(wiki_server, data)
    /\ requested' = Append(requested, NextLink(wiki_server, data))
    /\ pg_pc' = "loop"
    /\ UNCHANGED <<wiki_server, all_pages, truncVars, ctxVars, selVars, tkVars, blVars,
                   chVars, anVars, extVars>>

\* ------------------------------------------------- write_confluence_data_to_blob_storage

\* Space_Keys of config.py: split, stripped, blank keys dropped
Space_Keys == <<"EA", "ED">>

\* A title is a sequence of characters: letters, the reserved "/" and ":", "_",
\* a blank, the fullwidth colon (U+FF1A, "FWCOLON": NFKD turns it into ":") and
\* a character beyond the basic plane ("EMOJI").
Reserved == {"/", ":"}
\* re.sub(r'[\\/*?:"<>|]', "_", name)
ReplaceReserved(name) ==
    [i \in 1..Len(name) |-> IF name[i] \in Reserved THEN "_" ELSE name[i]]
\* unicodedata.normalize("NFKD", name)
Nfkd(name) == [i \in 1..Len(name) |-> IF name[i] = "FWCOLON" THEN ":" ELSE name[i]]
\* re.sub(r"\s+", " ", name)
RECURSIVE CollapseBlanks(_)
CollapseBlanks(name) ==
    IF Len(name) < 2 THEN name
    ELSE IF name[1] = " " /\ name[2] = " " THEN CollapseBlanks(Tail(name))
    ELSE <<name[1]>> \o CollapseBlanks(Tail(name))
\* re.sub(r"[\U00010000-\U0010FFFF]", "", name)
DropSupplementary(name) == SelectSeq(name, LAMBDA c : c # "EMOJI")

safe_filename(name) ==
    DropSupplementary(Strip(CollapseBlanks(ReplaceReserved(Nfkd(ReplaceReserved(name))))))

Titles == { <<"a", "/", "b">>, <<"a", "_", "b">>, <<"EMOJI", " ", " ", "a", "FWCOLON">> }
\* body.storage.value: markup and text
Bodies == { <<"<p>", "hello", "</p>">>, <<"bye">> }
\* BeautifulSoup(raw_html).get_text(separator="\n"): the text nodes
extract_text(page) == SelectSeq(page.body, LAMBDA t : t \notin {"<p>", "</p>"})

\* a page without body.storage.value: extract_text raises KeyError
NoBody == <<"KeyError">>
ExtractRaises(page) == page.body = NoBody

\* the pages of a space: titles are unique within a space, and every page has
\* its own URL
WikiPages ==
    { ps \in SeqUpTo([title : Titles, body : Bodies], MaxPages) :
          \A i, j \in 1..Len(ps) : i # j => ps[i].title # ps[j].title }
PageUrl(space_key, i) == <<"/spaces", space_key, "pages", i>>

\* text + "\n\nURL:" + url, encoded
NewContent(space_key, i, page) == [text |-> extract_text(page), url |-> PageUrl(space_key, i)]
\* f"{space_key}/{title}.txt"
BlobName(space_key, page) == <<space_key, safe_filename(page.title), ".txt">>
\* f"{File_Dir}/{title}.txt" of write_confluence_data_to_file: no space key
FileName(page) == <<safe_filename(page.title), ".txt">>

Exists(container, name) == \E b \in container : b[1] = name
ContentOf(container, name) == (CHOOSE b \in container : b[1] = name)[2]
\* upload_blob(new_content, overwrite=True)
Upload(container, name, new_content) ==
    {b \in container : b[1] # name} \cup {<<name, new_content>>}

\* the loop position after a page: the "except Exception" is inside the loop
\* over the pages, so a failed page is followed like any other
AfterPage(failed, si, pi, npages) ==
    IF pi < npages THEN [pc |-> "pages", space_i |-> si, page_i |-> pi + 1]
    ELSE [pc |-> "spaces", space_i |-> si + 1, page_i |-> 0]

\* the names of the blobs whose presence or content differs
ChangedBlobs(before, after) ==
    {b[1] : b \in (before \ after) \cup (after \ before)}

BlIdle == /\ bl_pc = "off" /\ bl_run = 0 /\ wiki = <<>> /\ space_i = 0 /\ page_i = 0
          /\ blobs = {} /\ total_uploaded = 0 /\ total_updated = 0
          /\ total_skipped = 0 /\ uploads = <<>>
          /\ bl_faulty = FALSE /\ bl_log = <<>>

\* the first run starts on an empty container
BlInit ==
    /\ bl_pc = "spaces"
    /\ bl_run = 1
    /\ wiki \in [1..Len(Space_Keys) -> WikiPages]
    /\ space_i = 1
    /\ page_i = 0
    /\ blobs = {}
    /\ total_uploaded = 0 /\ total_updated = 0 /\ total_skipped = 0
    /\ uploads = <<>>
    /\ bl_faulty = FALSE
    /\ bl_log = <<>>

\* The pages of a space for the runs on a failing storage: two titles that
\* safe_filename maps to one name, a body and a missing body.
FaultyWikiPages ==
    { ps \in SeqUpTo([title : {<<"a", "/", "b">>, <<"a", "_", "b">>},
                      body : {<<"<p>", "hello", "</p>">>, NoBody}], 2) :
          \A i, j \in 1..Len(ps) : i # j => ps[i].title # ps[j].title }
\* what the container may hold before such a run: nothing, or an older text or
\* the present text of the first page of each space
Preloads(w) ==
    { {},
      {<<BlobName(Space_Keys[s], w[s][i]), [text |-> <<"old">>, url |-> PageUrl(Space_Keys[s], i)]>> :
          s \in {t \in 1..Len(w) : w[t] # <<>>}, i \in {1}},
      {<<BlobName(Space_Keys[s], w[s][1]), NewContent(Space_Keys[s], 1, w[s][1])>> :
          s \in {t \in 1..Len(w) : w[t] # <<>>}} }

\* one run on a storage whose downloads and uploads may fail
BlFaultyInit ==
    /\ bl_pc = "spaces"
    /\ bl_run = 1
    /\ wiki \in [1..Len(Space_Keys) -> FaultyWikiPages]
    /\ space_i = 1
    /\ page_i = 0
    /\ blobs \in Preloads(wiki)
    /\ total_uploaded = 0 /\ total_updated = 0 /\ total_skipped = 0
    /\ uploads = <<>>
    /\ bl_faulty = TRUE
    /\ bl_log = <<>>

\* one turn of "for space_key in Space_Keys" up to the loop over its pages
EnterSpace ==
    /\ bl_pc = "spaces"
    /\ space_i <= Len(Space_Keys)
    /\ IF wiki[space_i] = <<>>                     \* "No pages found": continue
       THEN space_i' = space_i + 1 /\ UNCHANGED <<bl_pc, page_i>>
       ELSE bl_pc' = "pages" /\ page_i' = 1 /\ UNCHANGED space_i
    /\ UNCHANGED <<bl_run, wiki, blobs, total_uploaded, total_updated, total_skipped,
                   uploads, bl_faulty, bl_log, truncVars, ctxVars, selVars, tkVars, pgVars, chVars, anVars, extVars>>

\* one turn of "for page in pages". The download raises when the blob does not
\* exist and, on a failing storage, also when it does; the upload may fail on a
\* failing storage, after the counter was raised.
ProcessPage ==
    /\ bl_pc = "pages"
    /\ \E download_fails \in (IF bl_faulty THEN BOOLEAN ELSE {FALSE}),
          upload_fails \in (IF bl_faulty THEN BOOLEAN ELSE {FALSE}) :
       LET space_key == Space_Keys[space_i]
           page == wiki[space_i][page_i]
           blob_name == BlobName(space_key, page)
           new_content == NewContent(space_key, page_i, page)
           existed == Exists(blobs, blob_name)
           downloaded == existed /\ ~download_fails
           unchanged == downloaded /\ ContentOf(blobs, blob_name) = new_content
           failed == ExtractRaises(page) \/ (~unchanged /\ upload_fails)
           written == IF ExtractRaises(page) \/ unchanged \/ upload_fails
                      THEN blobs
                      ELSE Upload(blobs, blob_name, new_content)
           next == AfterPage(failed, space_i, page_i, Len(wiki[space_i]))
       IN  /\ IF ExtractRaises(page)
              THEN UNCHANGED <<uploads, total_skipped, total_updated, total_uploaded>>
              ELSE IF unchanged
              THEN /\ total_skipped' = total_skipped + 1
                   /\ UNCHANGED <<uploads, total_updated, total_uploaded>>
              ELSE /\ IF downloaded
                      THEN /\ total_updated' = total_updated + 1
                           /\ UNCHANGED <<total_skipped, total_uploaded>>
                      ELSE /\ total_uploaded' = total_uploaded + 1
                           /\ UNCHANGED <<total_skipped, total_updated>>
                   /\ uploads' = IF upload_fails THEN uploads
                                 ELSE Append(uploads, blob_name)
           /\ blobs' = written
           /\ bl_log' = Append(bl_log,
                  [space |-> space_i, page |-> page_i, blob |-> blob_name,
                   errors |-> {e \in {"extract"} : ExtractRaises(page)}
                              \cup {e \in {"download"} : ~ExtractRaises(page)
                                        /\ existed /\ download_fails}
                              \cup {e \in {"upload"} : ~ExtractRaises(page)
                                        /\ ~unchanged /\ upload_fails},
                   error_printed |-> failed, existed |-> existed,
                   wrote |-> ~(ExtractRaises(page) \/ unchanged \/ upload_fails),
                   changed |-> ChangedBlobs(blobs, written)])
           /\ bl_pc' = next.pc /\ space_i' = next.space_i /\ page_i' = next.page_i
    /\ UNCHANGED <<bl_run, wiki, bl_faulty, truncVars, ctxVars, selVars, tkVars, pgVars,
                   chVars, anVars, extVars>>

\* the loop over the spaces is over: print the summary
PrintSummary ==
    /\ bl_pc = "spaces"
    /\ space_i > Len(Space_Keys)
    /\ bl_pc' = "done"
    /\ UNCHANGED <<bl_run, wiki, space_i, page_i, blobs, total_uploaded, total_updated,
                   total_skipped, uploads, bl_faulty, bl_log, truncVars, ctxVars, selVars, tkVars, pgVars, chVars, anVars, extVars>>

\* the script is run again over the same wiki and the same container
RunAgain ==
    /\ bl_pc = "done"
    /\ bl_run = 1
    /\ bl_run' = 2
    /\ bl_pc' = "spaces"
    /\ space_i' = 1 /\ page_i' = 0
    /\ total_uploaded' = 0 /\ total_updated' = 0 /\ total_skipped' = 0
    /\ uploads' = <<>>
    /\ bl_log' = <<>>
    /\ UNCHANGED <<wiki, blobs, bl_faulty, truncVars, ctxVars, selVars, tkVars, pgVars, chVars,
                   anVars, extVars>>

\* ------------------------------------------------- Knowledge.safe_chunks

CHUNK_SIZE == 1000
CHUNK_OVERLAP == 200

\* A text without separators: chars characters, each of which encodes to per_char
\* tokens of its own. A chunk is a text too.
Text(chars, per_char) == [chars |-> chars, per_char |-> per_char]
\* len(enc.encode(chunk))
Tokens(chunk) == chunk.chars * chunk.per_char

\* RecursiveCharacterTextSplitter(chunk_size, chunk_overlap).split_text on a text
\* without separators: chunks of chunk_size characters, each starting
\* chunk_overlap characters before the end of the one before
RECURSIVE ChunkLens(_)
ChunkLens(chars) ==
    IF chars = 0 THEN <<>>
    ELSE IF chars <= CHUNK_SIZE THEN <<chars>>
    ELSE <<CHUNK_SIZE>> \o ChunkLens(chars - (CHUNK_SIZE - CHUNK_OVERLAP))
chunk_text(t) ==
    LET lens == ChunkLens(t.chars)
    IN  [i \in 1..Len(lens) |-> Text(lens[i], t.per_char)]

\* the loop of safe_chunks over the chunks left
RECURSIVE SafeLoop(_, _)
SafeLoop(chunks, maxt) ==
    IF chunks = <<>> THEN <<>>
    ELSE LET chunk == Head(chunks)
             mid == chunk.chars \div 2
         IN  (IF Tokens(chunk) > maxt
              THEN << Text(mid, chunk.per_char), Text(chunk.chars - mid, chunk.per_char) >>
              ELSE <<chunk>>)
             \o SafeLoop(Tail(chunks), maxt)

safe_chunks(t, maxt) == SafeLoop(chunk_text(t), maxt)

TextLens == {0, 7, 500, 1000, 1001, 1800, 2600}
TokensPerChar == {1, 2, 3}
MaxTokensInputs == {100, 1500, 3000}

ChIdle == /\ ch_pc = "off" /\ text = <<>> /\ max_tokens = 0 /\ safe = <<>>

ChInit ==
    /\ ch_pc = "call"
    /\ text \in {Text(n, c) : n \in TextLens, c \in TokensPerChar}
    /\ max_tokens \in MaxTokensInputs
    /\ safe = <<>>

SafeChunks ==
    /\ ch_pc = "call"
    /\ safe' = safe_chunks(text, max_tokens)
    /\ ch_pc' = "done"
    /\ UNCHANGED <<text, max_tokens, truncVars, ctxVars, selVars, tkVars, pgVars, blVars,
                   anVars, extVars>>

\* ------------------------------------------------- ErrorAnalyzer.analyze_error

\* A repository URL, as parse_repo_url reads it: its host, and whether the path
\* is {project}/_git/{repository}.
\* The empty URL and the URL of blanks have host "" and " ".
Hosts == {"dev.azure.com", "DEV.AZURE.COM", "org.visualstudio.com", "github.com"}
RepoUrls == [host : Hosts, git_path : BOOLEAN]
                \cup [host : {"", " "}, git_path : {FALSE}]
\* str.lower() of a host
Lower(host) == IF host = "DEV.AZURE.COM" THEN "dev.azure.com" ELSE host
\* the two azure_patterns are searched with re.IGNORECASE
MatchesAzurePattern(repo_url) ==
    Lower(repo_url.host) \in {"dev.azure.com", "org.visualstudio.com"} /\ repo_url.git_path

\* parse_repo_url accepting any host before /{project}/_git/{repository}
parse_repo_url_any_host(repo_url) == repo_url.git_path

\* parse_repo_url: TRUE when it returns (organization, project/repo), FALSE for None
parse_repo_url(repo_url) == MatchesAzurePattern(repo_url)

\* the dict returned by the "except Exception" of analyze_error, here let through
AnalysisFailedPropagates ==
    [outcome |-> "raised", success |-> FALSE, keys |-> {}, error |-> "exception"]

\* the dict returned by the "except Exception" of analyze_error
AnalysisFailed ==
    [outcome |-> "returned", success |-> FALSE, keys |-> {"success", "error"},
     error |-> "analysis_failed"]

ErrorResult(error) ==
    [outcome |-> "returned", success |-> FALSE, keys |-> {"success", "error"},
     error |-> error]
SuccessResult ==
    [outcome |-> "returned", success |-> TRUE,
     keys |-> {"success", "analysis", "files_analyzed", "repo_info", "platform",
               "analysis_scope", "commit_info"},
     error |-> ""]
NoResult == [outcome |-> "none", success |-> FALSE, keys |-> {}, error |-> ""]

\* The progress_callback argument: None, a function (its call runs its body,
\* which may raise), or a generator function such as update_progress of
\* analyze_error_with_ai (its call only makes a generator object: the body
\* does not run).
Callbacks == {"absent", "function", "generator"}
\* "if progress_callback: progress_callback(message)"
CallbackOutcomes ==
    CASE an_input.callback = "function" -> {"ok", "raises"}
      [] an_input.callback = "generator" -> {"unrun"}
      [] OTHER -> {"absent"}
\* the messages the callback has been called with
Progress(log, outcome, message) ==
    IF outcome \in {"ok", "unrun"} THEN Append(log, message) ELSE log
\* the APIs requests go to
Apis == {"source_control", "chat_completion"}

AnIdle == /\ an_pc = "off" /\ an_input = <<>> /\ an_progress = <<>> /\ an_files = <<>>
          /\ an_result = NoResult /\ an_requests = {}

AnInit ==
    /\ an_pc = "parse"
    /\ an_input \in [repo_url : RepoUrls, callback : Callbacks]
    /\ an_progress = <<>>
    /\ an_files = <<>>
    /\ an_result = NoResult
    /\ an_requests = {}

AnOthers == <<truncVars, ctxVars, selVars, tkVars, pgVars, blVars, chVars,
              ftVars, apiVars, lateVars, newVars>>

\* up to "owner, repo = repo_info"
ParseUrl ==
    /\ an_pc = "parse"
    /\ \E cb \in CallbackOutcomes :
        IF cb = "raises"
        THEN /\ an_result' = AnalysisFailed /\ an_pc' = "done"
             /\ UNCHANGED an_progress
        ELSE /\ an_progress' = Progress(an_progress, cb, "parsing")
             /\ IF parse_repo_url(an_input.repo_url)
                THEN an_pc' = "extract" /\ UNCHANGED an_result
                ELSE an_pc' = "done" /\ an_result' = ErrorResult("invalid_url")
    /\ UNCHANGED <<an_input, an_files, an_requests, AnOthers>>

\* up to the check of relevant_files; extract_relevant_files asks the
\* source-control API for the recent commits (get_recent_commits), may ask the
\* chat-completion API to select files (ai_select_relevant_files), and may raise
ExtractFiles ==
    /\ an_pc = "extract"
    /\ \E cb1 \in CallbackOutcomes, cb2 \in CallbackOutcomes,
          extract_raises \in BOOLEAN, found \in InjSeqUpTo(RepoPaths, MaxFiles),
          asks_llm \in BOOLEAN :
        IF cb1 = "raises"
        THEN /\ an_result' = AnalysisFailed /\ an_pc' = "done"
             /\ UNCHANGED <<an_progress, an_files, an_requests>>
        ELSE IF cb2 = "raises"
        THEN /\ an_result' = AnalysisFailed /\ an_pc' = "done"
             /\ an_progress' = Progress(an_progress, cb1, "analyzing")
             /\ UNCHANGED <<an_files, an_requests>>
        ELSE /\ an_progress' = Progress(Progress(an_progress, cb1, "analyzing"),
                                        cb2, "extracting")
             /\ an_requests' = an_requests \cup {"source_control"}
                    \cup (IF asks_llm THEN {"chat_completion"} ELSE {})
             /\ IF extract_raises
                THEN /\ an_result' = AnalysisFailed /\ an_pc' = "done"
                     /\ UNCHANGED an_files
                ELSE IF found = <<>>
                THEN /\ an_result' = ErrorResult("no_files") /\ an_pc' = "done"
                     /\ UNCHANGED an_files
                ELSE /\ an_files' = found /\ an_pc' = "prepare"
                     /\ UNCHANGED an_result
    /\ UNCHANGED <<an_input, AnOthers>>

\* up to "context = self.prepare_analysis_context(...)"
PrepareContext ==
    /\ an_pc = "prepare"
    /\ \E cb \in CallbackOutcomes :
        IF cb = "raises"
        THEN /\ an_result' = AnalysisFailed /\ an_pc' = "done"
             /\ UNCHANGED an_progress
        ELSE /\ an_progress' = Progress(an_progress, cb, "found")
             /\ an_pc' = "analyse"
             /\ UNCHANGED an_result
    /\ UNCHANGED <<an_input, an_files, an_requests, AnOthers>>

\* up to the return of the result; perform_ai_analysis may raise
PerformAnalysis ==
    /\ an_pc = "analyse"
    /\ \E cb \in CallbackOutcomes, analysis_raises \in BOOLEAN, asks_llm \in BOOLEAN :
        IF cb = "raises"
        THEN /\ an_result' = AnalysisFailed /\ an_pc' = "done"
             /\ UNCHANGED <<an_progress, an_requests>>
        ELSE /\ an_progress' = Progress(an_progress, cb, "performing")
             /\ an_requests' = an_requests
                    \cup (IF asks_llm THEN {"chat_completion"} ELSE {})
             /\ an_pc' = "done"
             /\ an_result' = IF analysis_raises THEN AnalysisFailed ELSE SuccessResult
    /\ UNCHANGED <<an_input, an_files, AnOthers>>

\* ------------------------------------------------- ErrorAnalysisFeature

\* An error message or URL text as str.strip() reads it: "" and " " strip to "".
Messages == {"", " ", "error"}
Blank(s) == s \in {"", " "}

\* 'dev.azure.com' in repo_url.lower() or 'visualstudio.com' in repo_url.lower()
NamesAzureHost(repo_url) ==
    Lower(repo_url.host) \in {"dev.azure.com", "org.visualstudio.com"}

\* validate_inputs without the test of the host
validate_inputs_any_host(message, repo_url) ==
    IF Blank(message) THEN "no_error_message"
    ELSE IF Blank(repo_url.host) THEN "no_repo_url"
    ELSE "none"

\* validate_inputs: the validation error, "none" for None
validate_inputs(message, repo_url) ==
    IF Blank(message) THEN "no_error_message"
    ELSE IF Blank(repo_url.host) THEN "no_repo_url"
    ELSE IF ~NamesAzureHost(repo_url) THEN "not_azure_devops"
    ELSE "none"

\* the messages analyze_error passes to its progress_callback
ProgressMessages == {"parsing", "analyzing", "extracting", "found", "performing"}

\* what analyze_error_with_ai yields after analyze_error has returned result
\* (files: the paths of files_analyzed, commits: whether commit_info is non-empty)
ResultYields(result, files, commits) ==
    IF result.outcome = "raised" THEN <<"failed_with_error">>
    ELSE IF ~result.success THEN <<"repository_analysis_failed">>
    ELSE <<"complete", "repository", "scope", "files_examined">>
         \o (IF commits THEN <<"commit_information">> ELSE <<>>)
         \o <<"files_found">> \o files
         \o <<"performing_ai", "ai_complete", "results", "analysis",
              "rule", "summary", "summary_repository", "summary_scope",
              "summary_files", "summary_ai">>

FtIdle == ft_pc = "off" /\ ft_input = <<>> /\ ft_yielded = <<>>

FtInit ==
    /\ ft_pc = "validate"
    /\ ft_input \in [error_message : Messages, repo_url : RepoUrls]
    /\ ft_yielded = <<>>

\* up to the call of self.analyzer.analyze_error with update_progress
Validate ==
    /\ ft_pc = "validate"
    /\ LET validation_error ==
               validate_inputs(ft_input.error_message, ft_input.repo_url) IN
        IF validation_error # "none"
        THEN /\ ft_yielded' = <<validation_error>>
             /\ ft_pc' = "done"
             /\ UNCHANGED anVars
        ELSE /\ ft_yielded' = <<"starting", "days", "structure">>
             /\ ft_pc' = "analyzing"
             /\ an_pc' = "parse"
             /\ an_input' = [repo_url |-> ft_input.repo_url, callback |-> "generator"]
             /\ UNCHANGED <<an_progress, an_files, an_result, an_requests>>
    /\ UNCHANGED <<ft_input, truncVars, ctxVars, selVars, tkVars, pgVars, blVars,
                   chVars, apiVars, lateVars, newVars>>

\* from the return of analyze_error to the end of the generator
Report ==
    /\ ft_pc = "analyzing" /\ an_pc = "done"
    /\ \E commits \in BOOLEAN :
        ft_yielded' = ft_yielded \o ResultYields(an_result, an_files, commits)
    /\ ft_pc' = "done"
    /\ UNCHANGED <<ft_input, truncVars, ctxVars, selVars, tkVars, pgVars, blVars,
                   chVars, anVars, apiVars, lateVars, newVars>>

\* ------------------------------------------------- api.analyze_error

\* the status answered when "except Exception" handles every exception
HandlerStatusGeneric(exception) == IF exception.type = "none" THEN 200 ELSE 500

\* the status the handlers of the endpoint answer an exception with:
\* "except HTTPException: raise" comes before "except Exception"
HandlerStatus(exception) ==
    IF exception.type = "HTTPException" THEN exception.status_code ELSE 500

NoResponse == [status |-> 0, updates |-> 0]

ApiIdle == api_pc = "off" /\ api_request = <<>> /\ api_response = NoResponse

ApiInit ==
    /\ api_pc = "check"
    /\ api_request \in [error_message : Messages, repo_url : RepoUrls]
    /\ api_response = NoResponse

\* the test of the request body and the call of analyze_error_with_ai
CheckRequest ==
    /\ api_pc = "check"
    /\ IF Blank(api_request.error_message) \/ Blank(api_request.repo_url.host)
       THEN /\ api_response' =
                   [status |-> HandlerStatus([type |-> "HTTPException",
                                              status_code |-> 400]),
                    updates |-> 0]
            /\ api_pc' = "done"
            /\ UNCHANGED ftVars
       ELSE /\ ft_pc' = "validate"
            /\ ft_input' = api_request
            /\ ft_yielded' = <<>>
            /\ api_pc' = "consuming"
            /\ UNCHANGED api_response
    /\ UNCHANGED <<api_request, truncVars, ctxVars, selVars, tkVars, pgVars, blVars,
                   chVars, anVars, lateVars, newVars>>

\* the generator is exhausted: the updates are joined into the response
Respond ==
    /\ api_pc = "consuming" /\ ft_pc = "done"
    /\ api_response' = [status |-> 200, updates |-> Len(ft_yielded)]
    /\ api_pc' = "done"
    /\ UNCHANGED <<api_request, truncVars, ctxVars, selVars, tkVars, pgVars, blVars,
                   chVars, anVars, ftVars, lateVars, newVars>>

\* ------------------------------------------------- get_recently_changed_files

MaxCommits == 2     \* commits returned by get_recent_commits

\* The items of the changes of a commit: item.path and item.gitObjectType.
\* "/src.cs" is a directory, "/notes.md" has no supported extension.
Items == { [path |-> "/a.cs", gitObjectType |-> "blob"],
           [path |-> "a.cs", gitObjectType |-> "blob"],
           [path |-> "/lib/b.cs", gitObjectType |-> "blob"],
           [path |-> "/notes.md", gitObjectType |-> "blob"],
           [path |-> "/src.cs", gitObjectType |-> "tree"] }
\* what get_commit_changes may return for a commit
ChangeLists == SeqUpTo(Items, 2)

\* item.get('path', '').lstrip('/')
LStripSlash(path) ==
    CASE path = "/a.cs" -> "a.cs"
      [] path = "/lib/b.cs" -> "lib/b.cs"
      [] path = "/notes.md" -> "notes.md"
      [] path = "/src.cs" -> "src.cs"
      [] OTHER -> path
\* any(file_name.endswith(ext) for ext in self.supported_extensions)
SupportedExtension(file_path) == file_path \in {"a.cs", "lib/b.cs", "src.cs"}

HasPath(files, file_path) == \E i \in 1..Len(files) : files[i].path = file_path

\* "changed_files[file_path] = {...}" done for every change: a later commit
\* replaces the metadata, the key keeps its place in the dict
RecordChangeOverwriting(files, file_path, commit_id) ==
    IF HasPath(files, file_path)
    THEN [i \in 1..Len(files) |->
            IF files[i].path = file_path
            THEN [path |-> file_path, last_commit_id |-> commit_id]
            ELSE files[i]]
    ELSE Append(files, [path |-> file_path, last_commit_id |-> commit_id])

\* "if file_path not in changed_files: changed_files[file_path] = {...}"
RecordChange(files, file_path, commit_id) ==
    IF HasPath(files, file_path)
    THEN files
    ELSE Append(files, [path |-> file_path, last_commit_id |-> commit_id])

\* the loop over the changes of one commit
RECURSIVE RecordChanges(_, _, _)
RecordChanges(files, changes, commit_id) ==
    IF changes = <<>> THEN files
    ELSE LET item == Head(changes)
             file_path == LStripSlash(item.path)
             next == IF item.gitObjectType = "blob" /\ SupportedExtension(file_path)
                     THEN RecordChange(files, file_path, commit_id)
                     ELSE files
         IN  RecordChanges(next, Tail(changes), commit_id)

ChgIdle == /\ chg_pc = "off" /\ recent_commits = <<>> /\ commit_no = 0
           /\ changed_files = <<>>

ChgInit ==
    /\ chg_pc = "commits"
    /\ recent_commits \in SeqUpTo(ChangeLists, MaxCommits)
    /\ commit_no = 1
    /\ changed_files = <<>>

\* one turn of "for commit in recent_commits"; the commit's id is its position
ProcessCommit ==
    /\ chg_pc = "commits" /\ commit_no <= Len(recent_commits)
    /\ changed_files' = RecordChanges(changed_files, recent_commits[commit_no], commit_no)
    /\ commit_no' = commit_no + 1
    /\ UNCHANGED <<chg_pc, recent_commits, coreVars, ftVars, apiVars, vsVars, paVars, newVars>>

\* "return []" for no commits, "return list(changed_files.values())" otherwise
ReturnChangedFiles ==
    /\ chg_pc = "commits" /\ commit_no > Len(recent_commits)
    /\ chg_pc' = "done"
    /\ UNCHANGED <<recent_commits, commit_no, changed_files, coreVars, ftVars, apiVars,
                   vsVars, paVars, newVars>>

\* ------------------------------------------------- _create_vectorstore_with_rate_limiting

BATCH_SIZE == 100

\* len(chunks) of the calls of the model
ChunkCounts == {0, 1, 100, 101, 250}

\* str(e) of the exception an insertion ends with; "ok": it does not raise
InsertionErrors == {"rate limit exceeded", "Rate Limit reached", "connection reset"}
InsertionOutcomes == {"ok"} \cup InsertionErrors

\* '"rate limit" in str(e)', without lower()
RateLimitedExactCase(error) == error = "rate limit exceeded"

\* '"rate limit" in str(e).lower()'
RateLimited(error) == error \in {"rate limit exceeded", "Rate Limit reached"}

\* chunks[i:i + BATCH_SIZE + 1]: a batch that takes one document too many
BatchOverlapping(docs, i) ==
    SubSeq(docs, i + 1, Min(i + BATCH_SIZE + 1, Len(docs)))

\* chunks[i:i + BATCH_SIZE]
Batch(docs, i) == SubSeq(docs, i + 1, Min(i + BATCH_SIZE, Len(docs)))

\* the record of one call of Chroma.from_documents or vectorstore.add_documents
Insertion(store, batch, retry, error) ==
    [call |-> IF store = 0 THEN "from_documents" ELSE "add_documents",
     store |-> store, batch |-> batch, retry |-> retry, error |-> error]

VsIdle == /\ vs_pc = "off" /\ vs_chunks = <<>> /\ vs_i = 0 /\ vectorstore = 0
          /\ vs_stores = 0 /\ vs_documents = <<>> /\ vs_calls = <<>>

VsInit ==
    /\ vs_pc = "loop"
    /\ \E n \in ChunkCounts : vs_chunks = [k \in 1..n |-> k]
    /\ vs_i = 0
    /\ vectorstore = 0
    /\ vs_stores = 0
    /\ vs_documents = <<>>
    /\ vs_calls = <<>>

\* one turn of "for i in range(0, len(chunks), BATCH_SIZE)": the insertion of
\* the batch and, in the except clause, its retry
InsertBatch ==
    /\ vs_pc = "loop" /\ vs_i < Len(vs_chunks)
    /\ \E error \in InsertionOutcomes, retry_error \in InsertionOutcomes :
        LET batch == Batch(vs_chunks, vs_i)
            first == Insertion(vectorstore, batch, FALSE, error)
            retry == Insertion(vectorstore, batch, TRUE, retry_error)
            inserted == /\ vs_documents' = vs_documents \o batch
                        /\ IF vectorstore = 0
                           THEN /\ vs_stores' = vs_stores + 1
                                /\ vectorstore' = vs_stores + 1
                           ELSE UNCHANGED <<vectorstore, vs_stores>>
                        /\ vs_i' = vs_i + BATCH_SIZE
                        /\ UNCHANGED vs_pc
            raised == /\ vs_pc' = "raised"
                      /\ UNCHANGED <<vs_documents, vectorstore, vs_stores, vs_i>>
        IN  IF error = "ok"
            THEN vs_calls' = Append(vs_calls, first) /\ inserted
            ELSE IF RateLimited(error)
            THEN /\ vs_calls' = vs_calls \o <<first, retry>>
                 /\ IF retry_error = "ok" THEN inserted ELSE raised
            ELSE vs_calls' = Append(vs_calls, first) /\ raised
    /\ UNCHANGED <<vs_chunks, coreVars, ftVars, apiVars, chgVars, paVars, newVars>>

\* after the loop: "vectorstore._collection.count()" raises on None
ReturnStore ==
    /\ vs_pc = "loop" /\ vs_i >= Len(vs_chunks)
    /\ vs_pc' = IF vectorstore = 0 THEN "raised" ELSE "returned"
    /\ UNCHANGED <<vs_chunks, vs_i, vectorstore, vs_stores, vs_documents, vs_calls,
                   coreVars, ftVars, apiVars, chgVars, paVars, newVars>>

\* ------------------------------------------------- perform_ai_analysis

\* The body of a response, as "response.json()['choices'][0]['message']
\* ['content'].strip()" reads it.
Bodies200 == {"not_json", "no_choices", "empty_choices", "no_content",
              "content_null", "content_text"}
StatusCodes == {200, 401, 429, 500}
\* len(context.split('\n')) of the contexts of the model
ContextLines == {1, 10, 25}

AnalysisEnvs ==
    [openai_key : BOOLEAN, openai_url : BOOLEAN, context_lines : ContextLines,
     request_raises : BOOLEAN, status_code : StatusCodes, body : Bodies200]

\* _fallback_analysis_template: the template around the first 10 lines of context
fallback_analysis_template(context_lines) ==
    [kind |-> "fallback_template", error_lines |-> Min(10, context_lines)]

\* the try block of perform_ai_analysis: [exc, value]
AnalysisTryBody(env) ==
    IF ~(env.openai_key /\ env.openai_url)
    THEN [exc |-> FALSE, value |-> fallback_analysis_template(env.context_lines)]
    ELSE IF env.request_raises
    THEN [exc |-> TRUE, value |-> <<>>]
    ELSE IF env.status_code = 200
    THEN IF env.body = "content_text"
         THEN [exc |-> FALSE, value |-> [kind |-> "ai_analysis_with_metadata"]]
         ELSE [exc |-> TRUE, value |-> <<>>]
    ELSE [exc |-> FALSE, value |-> fallback_analysis_template(env.context_lines)]

\* perform_ai_analysis without its "except Exception"
perform_ai_analysis_uncaught(env) ==
    LET body == AnalysisTryBody(env)
    IN  [raised |-> body.exc, value |-> body.value]

\* perform_ai_analysis: [raised, value]
perform_ai_analysis(env) ==
    LET body == AnalysisTryBody(env)
    IN  IF body.exc
        THEN [raised |-> FALSE, value |-> fallback_analysis_template(env.context_lines)]
        ELSE [raised |-> FALSE, value |-> body.value]

PaIdle == pa_pc = "off" /\ pa_env = <<>> /\ pa_result = <<>>

PaInit ==
    /\ pa_pc = "call"
    /\ pa_env \in AnalysisEnvs
    /\ pa_result = <<>>

PerformAiAnalysis ==
    /\ pa_pc = "call"
    /\ pa_result' = perform_ai_analysis(pa_env)
    /\ pa_pc' = "done"
    /\ UNCHANGED <<pa_env, coreVars, ftVars, apiVars, chgVars, vsVars, newVars>>

\* ------------------------------------------------- _extract_error_specific_files

MAXDEPTH == 4

\* The paths get_repo_structure is asked for: the root and one directory.
DirPaths == {"", "src"}
\* The items a listing may hold, as _get_azure_repo_structure converts them.
\* The directories are the root itself and "src": a listing may hold the listed
\* directory (the API lists the scope path with its children) or its parent.
RepoItems == { [type |-> "file", path |-> "A.cs", name |-> "A.cs"],
               [type |-> "file", path |-> "src/OldA.cs", name |-> "OldA.cs"],
               [type |-> "file", path |-> "readme.md", name |-> "readme.md"],
               [type |-> "dir", path |-> "", name |-> ""],
               [type |-> "dir", path |-> "src", name |-> "src"] }
Listings == [DirPaths -> SeqUpTo(RepoItems, 2)]

\* any(mentioned_file.lower() in file_name.lower() ...) for an error message
\* that mentions "a.cs"
Mentioned(file_name) == file_name \in {"A.cs", "OldA.cs"}
\* get_file_content returns a non-empty string (None for src/OldA.cs)
HasContent(file_path) == file_path = "A.cs"

\* "depth <= MAXDEPTH" in place of "depth < MAXDEPTH"
MayDescendInclusive(depth) == depth <= MAXDEPTH

\* "elif item.get('type') == 'dir' and depth < MAXDEPTH"
MayDescend(depth) == depth < MAXDEPTH

\* the call search_for_files(path, depth): the stack after the tests at its
\* start, with a new frame when the loop over contents is entered
EnterSearch(stack, path, depth, found, maxf, listings) ==
    IF depth > MAXDEPTH \/ Len(found) >= maxf THEN stack
    ELSE IF listings[path] = <<>> THEN stack
    ELSE Append(stack, [path |-> path, depth |-> depth, pos |-> 1])

Pop(stack) == SubSeq(stack, 1, Len(stack) - 1)
Top(stack) == stack[Len(stack)]
\* the stack with the loop of its innermost call moved to the next item
Advance(stack) ==
    [stack EXCEPT ![Len(stack)] = [@ EXCEPT !.pos = @ + 1]]

EsIdle == /\ es_pc = "off" /\ es_listings = <<>> /\ es_max_files = 0
          /\ es_stack = <<>> /\ es_deepest = 0 /\ found_files = <<>>

EsInit ==
    /\ es_pc = "start"
    /\ es_listings \in Listings
    /\ es_max_files \in {0, 1, 2}
    /\ es_stack = <<>>
    /\ es_deepest = 0
    /\ found_files = <<>>

\* "search_for_files()"
StartSearch ==
    /\ es_pc = "start"
    /\ es_stack' = EnterSearch(<<>>, "", 0, found_files, es_max_files, es_listings)
    /\ es_pc' = "search"
    /\ UNCHANGED <<es_listings, es_max_files, es_deepest, found_files,
                   coreVars, ftVars, apiVars, lateVars, uiVars>>

\* one turn of "for item in contents" in the innermost call
SearchItem ==
    /\ es_pc = "search" /\ es_stack # <<>>
    /\ LET frame == Top(es_stack)
           contents == es_listings[frame.path]
       IN  /\ frame.pos <= Len(contents)
           /\ LET item == contents[frame.pos] IN
              IF Len(found_files) >= es_max_files
              THEN /\ es_stack' = Pop(es_stack)
                   /\ UNCHANGED <<found_files, es_deepest>>
              ELSE IF item.type = "file"
              THEN /\ found_files' =
                         IF Mentioned(item.name) /\ HasContent(item.path)
                         THEN Append(found_files, item.path) ELSE found_files
                   /\ es_stack' = Advance(es_stack)
                   /\ UNCHANGED es_deepest
              ELSE IF item.type = "dir" /\ MayDescend(frame.depth)
              THEN /\ es_stack' = EnterSearch(Advance(es_stack), item.path,
                                              frame.depth + 1, found_files,
                                              es_max_files, es_listings)
                   /\ es_deepest' = Max(es_deepest, frame.depth + 1)
                   /\ UNCHANGED found_files
              ELSE /\ es_stack' = Advance(es_stack)
                   /\ UNCHANGED <<found_files, es_deepest>>
    /\ UNCHANGED <<es_pc, es_listings, es_max_files, coreVars, ftVars, apiVars, lateVars, uiVars>>

\* the loop of the innermost call is over: the call returns
ReturnFromSearch ==
    /\ es_pc = "search" /\ es_stack # <<>>
    /\ Top(es_stack).pos > Len(es_listings[Top(es_stack).path])
    /\ es_stack' = Pop(es_stack)
    /\ UNCHANGED <<es_pc, es_listings, es_max_files, es_deepest, found_files,
                   coreVars, ftVars, apiVars, lateVars, uiVars>>

\* the outermost call has returned: "return found_files"
ReturnFound ==
    /\ es_pc = "search" /\ es_stack = <<>>
    /\ es_pc' = "done"
    /\ UNCHANGED <<es_listings, es_max_files, es_stack, es_deepest, found_files,
                   coreVars, ftVars, apiVars, lateVars, uiVars>>

\* ------------------------------------------------------------ update_knowledge_base

\* the updates started from the UI, and the files of File_Dir
MaxUpdates == 2
MaxDocs == 1
Updates == 1..MaxUpdates
Docs == 1..MaxDocs

\* fetch_confluence_data_with_timeout(timeout=120), and its time.sleep(30)
FETCH_TIMEOUT == 120
POLL_SECONDS == 30

\* the stream sys.stdout is before the first update, and the RealtimeCapture
\* the embedding thread of an update installs
OriginalStdout == <<"stdout">>
RealtimeCapture(u) == <<"RealtimeCapture", u>>

UiIdle ==
    /\ ui_pc = <<>> /\ ui_elapsed = <<>> /\ ui_read = <<>>
    /\ fetch_pc = <<>> /\ fetch_i = <<>> /\ fetch_open = <<>> /\ directory = <<>>
    /\ emb_pc = <<>> /\ old_stdout = <<>> /\ embedding_result = <<>>
    /\ sys_stdout = <<>>

\* no update was started yet; File_Dir holds the files of an earlier fetch
UiInit ==
    /\ ui_pc = [u \in Updates |-> "idle"]
    /\ ui_elapsed = [u \in Updates |-> 0]
    /\ ui_read = [u \in Updates |-> <<>>]
    /\ fetch_pc = [u \in Updates |-> "none"]
    /\ fetch_i = [u \in Updates |-> 0]
    /\ fetch_open = [u \in Updates |-> FALSE]
    /\ directory = [d \in Docs |-> "old"]
    /\ emb_pc = [u \in Updates |-> "none"]
    /\ old_stdout = [u \in Updates |-> OriginalStdout]
    /\ embedding_result = [u \in Updates |-> "none"]
    /\ sys_stdout = OriginalStdout

UiOthers == <<coreVars, ftVars, apiVars, lateVars, esVars>>

\* the button is clicked: steps 1 and 2 up to fetch_thread.start() and
\* start_time = time.time()
StartUpdate ==
    \E u \in Updates :
        /\ ui_pc[u] = "idle"
        /\ ui_pc' = [ui_pc EXCEPT ![u] = "poll"]
        /\ fetch_pc' = [fetch_pc EXCEPT ![u] = "running"]
        /\ UNCHANGED <<ui_elapsed, ui_read, fetch_i, fetch_open, directory, emb_pc,
                       old_stdout, embedding_result, sys_stdout, UiOthers>>

\* the fetch thread: open(f"{File_Dir}/{title}.txt", "w") truncates the file
OpenDoc ==
    \E u \in Updates :
        /\ fetch_pc[u] = "running" /\ ~fetch_open[u] /\ fetch_i[u] < MaxDocs
        /\ directory' = [directory EXCEPT ![fetch_i[u] + 1] = "empty"]
        /\ fetch_open' = [fetch_open EXCEPT ![u] = TRUE]
        /\ UNCHANGED <<ui_pc, ui_elapsed, ui_read, fetch_pc, fetch_i, emb_pc,
                       old_stdout, embedding_result, sys_stdout, UiOthers>>

\* the fetch thread: f.write(text) and the end of the "with"
WriteDoc ==
    \E u \in Updates :
        /\ fetch_pc[u] = "running" /\ fetch_open[u]
        /\ directory' = [directory EXCEPT ![fetch_i[u] + 1] = "new"]
        /\ fetch_open' = [fetch_open EXCEPT ![u] = FALSE]
        /\ fetch_i' = [fetch_i EXCEPT ![u] = @ + 1]
        /\ UNCHANGED <<ui_pc, ui_elapsed, ui_read, fetch_pc, emb_pc,
                       old_stdout, embedding_result, sys_stdout, UiOthers>>

\* the fetch thread ends: every file is written, or a request or a page raised
\* and fetch_data printed the error
EndFetch ==
    \E u \in Updates :
        /\ fetch_pc[u] = "running" /\ ~fetch_open[u]
        /\ fetch_pc' = [fetch_pc EXCEPT ![u] = "ended"]
        /\ UNCHANGED <<ui_pc, ui_elapsed, ui_read, fetch_i, fetch_open, directory,
                       emb_pc, old_stdout, embedding_result, sys_stdout, UiOthers>>

\* "while fetch_thread.is_alive() and (time.time() - start_time) < timeout",
\* and after the loop the message on the outcome
PollFetch ==
    \E u \in Updates :
        /\ ui_pc[u] = "poll"
        /\ ui_pc' = [ui_pc EXCEPT ![u] =
                        IF fetch_pc[u] = "running" /\ ui_elapsed[u] < FETCH_TIMEOUT
                        THEN "sleep" ELSE "chunk"]
        /\ UNCHANGED <<ui_elapsed, ui_read, fetch_pc, fetch_i, fetch_open, directory,
                       emb_pc, old_stdout, embedding_result, sys_stdout, UiOthers>>

\* "time.sleep(30)" of the fetch loop
SleepFetch ==
    \E u \in Updates :
        /\ ui_pc[u] = "sleep"
        /\ ui_elapsed' = [ui_elapsed EXCEPT ![u] = @ + POLL_SECONDS]
        /\ ui_pc' = [ui_pc EXCEPT ![u] = "poll"]
        /\ UNCHANGED <<ui_read, fetch_pc, fetch_i, fetch_open, directory, emb_pc,
                       old_stdout, embedding_result, sys_stdout, UiOthers>>

\* step 3, Knowledge.process_confluence_data: one file is opened and read
ChunkDoc ==
    \E u \in Updates :
        /\ ui_pc[u] = "chunk"
        /\ ui_read' = [ui_read EXCEPT ![u] = Append(@, directory[Len(@) + 1])]
        /\ ui_pc' = [ui_pc EXCEPT ![u] = IF Len(ui_read[u]) + 1 = MaxDocs
                                         THEN "embed" ELSE "chunk"]
        /\ UNCHANGED <<ui_elapsed, fetch_pc, fetch_i, fetch_open, directory, emb_pc,
                       old_stdout, embedding_result, sys_stdout, UiOthers>>

\* step 4, create_embeddings_with_monitoring: embedding_thread.start()
StartEmbedding ==
    \E u \in Updates :
        /\ ui_pc[u] = "embed"
        /\ ui_pc' = [ui_pc EXCEPT ![u] = "monitor"]
        /\ emb_pc' = [emb_pc EXCEPT ![u] = "save"]
        /\ UNCHANGED <<ui_elapsed, ui_read, fetch_pc, fetch_i, fetch_open, directory,
                       old_stdout, embedding_result, sys_stdout, UiOthers>>

\* the embedding thread: "old_stdout = sys.stdout"
SaveStdout ==
    \E u \in Updates :
        /\ emb_pc[u] = "save"
        /\ old_stdout' = [old_stdout EXCEPT ![u] = sys_stdout]
        /\ emb_pc' = [emb_pc EXCEPT ![u] = "install"]
        /\ UNCHANGED <<ui_pc, ui_elapsed, ui_read, fetch_pc, fetch_i, fetch_open,
                       directory, embedding_result, sys_stdout, UiOthers>>

\* the embedding thread: "sys.stdout = RealtimeCapture(output_queue, old_stdout)"
InstallCapture ==
    \E u \in Updates :
        /\ emb_pc[u] = "install"
        /\ sys_stdout' = RealtimeCapture(u)
        /\ emb_pc' = [emb_pc EXCEPT ![u] = "run"]
        /\ UNCHANGED <<ui_pc, ui_elapsed, ui_read, fetch_pc, fetch_i, fetch_open,
                       directory, old_stdout, embedding_result, UiOthers>>

\* the embedding thread: get_embeddings_using_Azure returns or raises
GetEmbeddings ==
    \E u \in Updates, result \in {"success", "error"} :
        /\ emb_pc[u] = "run"
        /\ embedding_result' = [embedding_result EXCEPT ![u] = result]
        /\ emb_pc' = [emb_pc EXCEPT ![u] = "restore"]
        /\ UNCHANGED <<ui_pc, ui_elapsed, ui_read, fetch_pc, fetch_i, fetch_open,
                       directory, old_stdout, sys_stdout, UiOthers>>

\* the embedding thread: "finally: sys.stdout = old_stdout", and the thread ends
RestoreStdout ==
    \E u \in Updates :
        /\ emb_pc[u] = "restore"
        /\ sys_stdout' = old_stdout[u]
        /\ emb_pc' = [emb_pc EXCEPT ![u] = "ended"]
        /\ UNCHANGED <<ui_pc, ui_elapsed, ui_read, fetch_pc, fetch_i, fetch_open,
                       directory, old_stdout, embedding_result, UiOthers>>

\* monitor_embedding_progress leaves its loop when the thread is not alive;
\* finalize_embedding_results and step 5, or the outer except
FinishUpdate ==
    \E u \in Updates :
        /\ ui_pc[u] = "monitor" /\ emb_pc[u] = "ended"
        /\ ui_pc' = [ui_pc EXCEPT ![u] = "done"]
        /\ UNCHANGED <<ui_elapsed, ui_read, fetch_pc, fetch_i, fetch_open, directory,
                       emb_pc, old_stdout, embedding_result, sys_stdout, UiOthers>>

CoreIdle ==
    /\ TruncIdle /\ CtxIdle /\ SelIdle /\ TkIdle
    /\ PgIdle /\ BlIdle /\ ChIdle /\ AnIdle
LateIdle == ChgIdle /\ VsIdle /\ PaIdle
NewIdle == EsIdle /\ UiIdle
ExtIdle == FtIdle /\ ApiIdle /\ LateIdle /\ NewIdle

\* ------------------------------------------------------------------ specs

\* One specification per component; the other components stay idle.

\* one call of _smart_truncate_content
InitTrunc ==
    /\ TruncInit
    /\ CtxIdle /\ SelIdle /\ TkIdle /\ PgIdle
    /\ BlIdle /\ ChIdle /\ AnIdle
    /\ ExtIdle
SpecTrunc == InitTrunc /\ [][SmartTruncate]_vars

\* one call of prepare_analysis_context
InitCtx ==
    /\ CtxInit
    /\ TruncIdle /\ SelIdle /\ TkIdle /\ PgIdle
    /\ BlIdle /\ ChIdle /\ AnIdle
    /\ ExtIdle
CtxNext == PackFile \/ ReturnContext
SpecCtx == InitCtx /\ [][CtxNext]_vars

\* one call of ai_select_relevant_files
InitSelect ==
    /\ SelInit
    /\ TruncIdle /\ CtxIdle /\ TkIdle /\ PgIdle
    /\ BlIdle /\ ChIdle /\ AnIdle
    /\ ExtIdle
SpecSelect == InitSelect /\ [][SelectFiles]_vars

\* one call of create_ticket
InitTicket ==
    /\ TkInit
    /\ TruncIdle /\ CtxIdle /\ SelIdle /\ PgIdle
    /\ BlIdle /\ ChIdle /\ AnIdle
    /\ ExtIdle
SpecTicket == InitTicket /\ [][CreateTicket]_vars

\* one call of get_confluence_pages
InitPages ==
    /\ PgInit
    /\ TruncIdle /\ CtxIdle /\ SelIdle /\ TkIdle
    /\ BlIdle /\ ChIdle /\ AnIdle
    /\ ExtIdle
PagesNext == ExtendPages \/ FollowNext
SpecPages == InitPages /\ [][PagesNext]_vars

\* two runs of write_confluence_data_to_blob_storage
InitBlob ==
    /\ BlInit
    /\ TruncIdle /\ CtxIdle /\ SelIdle /\ TkIdle
    /\ PgIdle /\ ChIdle /\ AnIdle
    /\ ExtIdle
BlobNext == EnterSpace \/ ProcessPage \/ PrintSummary \/ RunAgain
SpecBlob == InitBlob /\ [][BlobNext]_vars

\* one call of safe_chunks
InitChunks ==
    /\ ChInit
    /\ TruncIdle /\ CtxIdle /\ SelIdle /\ TkIdle
    /\ PgIdle /\ BlIdle /\ AnIdle
    /\ ExtIdle
SpecChunks == InitChunks /\ [][SafeChunks]_vars

\* one call of analyze_error
InitAnalyze ==
    /\ AnInit
    /\ TruncIdle /\ CtxIdle /\ SelIdle /\ TkIdle
    /\ PgIdle /\ BlIdle /\ ChIdle
    /\ ExtIdle
AnalyzeNext == ParseUrl \/ ExtractFiles \/ PrepareContext \/ PerformAnalysis
SpecAnalyze == InitAnalyze /\ [][AnalyzeNext]_vars


\* one generator of analyze_error_with_ai, consumed to its end
InitFeature ==
    /\ FtInit
    /\ TruncIdle /\ CtxIdle /\ SelIdle /\ TkIdle
    /\ PgIdle /\ BlIdle /\ ChIdle /\ AnIdle
    /\ ApiIdle /\ LateIdle /\ NewIdle
FeatureNext ==
    \/ Validate \/ ParseUrl \/ ExtractFiles \/ PrepareContext \/ PerformAnalysis
    \/ Report
SpecFeature == InitFeature /\ [][FeatureNext]_vars

\* one request POST /api/error-analysis
InitApi ==
    /\ ApiInit
    /\ TruncIdle /\ CtxIdle /\ SelIdle /\ TkIdle
    /\ PgIdle /\ BlIdle /\ ChIdle /\ AnIdle
    /\ FtIdle /\ LateIdle /\ NewIdle
ApiNext ==
    \/ CheckRequest
    \/ Validate \/ ParseUrl \/ ExtractFiles \/ PrepareContext \/ PerformAnalysis
    \/ Report
    \/ Respond
SpecApi == InitApi /\ [][ApiNext]_vars


\* one call of get_recently_changed_files
InitChanged == ChgInit /\ CoreIdle /\ FtIdle /\ ApiIdle /\ VsIdle /\ PaIdle
    /\ NewIdle
ChangedNext == ProcessCommit \/ ReturnChangedFiles
SpecChanged == InitChanged /\ [][ChangedNext]_vars


\* one call of _create_vectorstore_with_rate_limiting
InitStore == VsInit /\ CoreIdle /\ FtIdle /\ ApiIdle /\ ChgIdle /\ PaIdle
    /\ NewIdle
StoreNext == InsertBatch \/ ReturnStore
SpecStore == InitStore /\ [][StoreNext]_vars


\* one call of perform_ai_analysis
InitAiAnalysis == PaInit /\ CoreIdle /\ FtIdle /\ ApiIdle /\ ChgIdle /\ VsIdle
    /\ NewIdle
SpecAiAnalysis == InitAiAnalysis /\ [][PerformAiAnalysis]_vars


\* one call of _extract_error_specific_files; the interpreter keeps running it
InitSearch == EsInit /\ CoreIdle /\ FtIdle /\ ApiIdle /\ LateIdle /\ UiIdle
SearchNext == StartSearch \/ SearchItem \/ ReturnFromSearch \/ ReturnFound
SpecSearch == InitSearch /\ [][SearchNext]_vars /\ WF_vars(SearchNext)


\* one run of write_confluence_data_to_blob_storage on a failing storage
InitBlobFaulty ==
    /\ BlFaultyInit
    /\ TruncIdle /\ CtxIdle /\ SelIdle /\ TkIdle
    /\ PgIdle /\ ChIdle /\ AnIdle
    /\ ExtIdle
BlobFaultyNext == EnterSpace \/ ProcessPage \/ PrintSummary
SpecBlobFaulty == InitBlobFaulty /\ [][BlobFaultyNext]_vars


\* the updates of the knowledge base started from the UI, their threads
\* interleaved
InitUpdate == UiInit /\ CoreIdle /\ FtIdle /\ ApiIdle /\ LateIdle /\ EsIdle
UpdateNext ==
    \/ StartUpdate \/ OpenDoc \/ WriteDoc \/ EndFetch \/ PollFetch \/ SleepFetch
    \/ ChunkDoc \/ StartEmbedding \/ SaveStdout \/ InstallCapture \/ GetEmbeddings
    \/ RestoreStdout \/ FinishUpdate
SpecUpdate == InitUpdate /\ [][UpdateNext]_vars

\* ------------------------------------------------------------------ claims

\* C1: the string returned by prepare_analysis_context has at most MAX_CHARS
\* characters, the error-message header and the omission notice included.
C1_ContextWithinBudget == ctx_pc = "done" => context_len <= MAX_CHARS

\* C2: ai_select_relevant_files returns at most max_files paths, from the LLM's
\* answer as from the keyword-scoring fallback.
C2_AtMostMaxFiles == sel_pc = "done" => Len(sel_result) <= max_files

\* C2 happens: more candidates than max_files, and the result is cut to max_files,
\* on the fallback branch.
C2_Witness ==
    /\ sel_pc = "done"
    /\ llm.kind = "status_not_200"
    /\ max_files > 0
    /\ Len(ScoredFiles(all_files, error_message)) > max_files
    /\ Len(sel_result) = max_files

\* the cases in which the LLM gives no usable answer
NoUsableAnswer ==
    \/ llm.kind \in LlmFailures
    \/ /\ llm.kind = "json_array"
       /\ \A i \in 1..Len(llm.paths) :
              \A j \in 1..Len(all_files) : all_files[j].path # llm.paths[i]

\* C3: for a non-empty file list ai_select_relevant_files never raises, and when
\* the LLM gives no usable answer (no credentials, a failed request, a non-200
\* status, no parsable JSON array, no answered path of the input list) it returns
\* what _smart_file_selection_fallback returns on the same inputs.
C3_FallbackOnFailure ==
    (sel_pc = "done" /\ all_files # <<>>) =>
        /\ ~sel_raised
        /\ NoUsableAnswer =>
               sel_result = smart_file_selection_fallback(all_files, error_message,
                                                          max_files)

\* C3 happens: the request raised and the fallback's selection came back.
C3_Witness ==
    /\ sel_pc = "done"
    /\ llm.kind = "request_raises"
    /\ ~sel_raised
    /\ sel_result # <<>>

\* the three markers occur, and their first occurrences are in the order
\* 'User Story' < 'Acceptance Criteria' < 'Scenarios'
FirstAt(desc, marker, i) == desc[i] = marker /\ \A m \in 1..(i - 1) : desc[m] # marker
MarkersInOrder(desc) ==
    \E i, j, k \in 1..Len(desc) :
        /\ i < j /\ j < k
        /\ FirstAt(desc, US, i) /\ FirstAt(desc, AC, j) /\ FirstAt(desc, SC, k)
FieldsGiven ==
    /\ ticket.summary # "" /\ ticket.description # <<>>
    /\ ticket.issue_type # "" /\ ticket.project_key # ""

\* C4: create_ticket sends the POST only if the four fields are non-empty and the
\* description holds the three markers with first occurrences in order; in every
\* other case it returns one of the two error messages and sends nothing.
C4_PostOnlyWhenValid ==
    /\ tk_pc = "call" => tk_posts = <<>>
    /\ tk_pc = "done" =>
        /\ Len(tk_posts) <= 1
        /\ tk_posts # <<>> <=> (FieldsGiven /\ MarkersInOrder(ticket.description))
        /\ tk_posts = <<>> => tk_result \in {"all_fields_required", "sections_missing"}

\* C4 happens: all fields given, all three markers present, but out of order:
\* the error message is returned and nothing is sent.
C4_Witness ==
    /\ tk_pc = "done"
    /\ FieldsGiven
    /\ \A marker \in {US, AC, SC} : Index(ticket.description, marker) >= 0
    /\ ~MarkersInOrder(ticket.description)
    /\ tk_posts = <<>>
    /\ tk_result = "sections_missing"

\* C5: the request authenticates with the user's email and API token only when
\* both are non-empty, and otherwise with the default account; never with one
\* value of each.
C5_UserOrDefaultAccount ==
    (tk_pc = "done" /\ tk_posts # <<>>) =>
        tk_posts[1].auth = IF ticket.email # "" /\ ticket.API_token # ""
                           THEN <<ticket.email, ticket.API_token>>
                           ELSE <<JIRA_EMAIL, JIRA_API_TOKEN>>

\* C5 happens: an email without a token, and the request goes out under the
\* default account.
C5_Witness ==
    /\ tk_pc = "done"
    /\ ticket.email # "" /\ ticket.API_token = ""
    /\ tk_posts # <<>>
    /\ tk_posts[1].auth = <<JIRA_EMAIL, JIRA_API_TOKEN>>

\* the results of the responses of reqs, concatenated
RECURSIVE ConcatResults(_, _)
ConcatResults(server, reqs) ==
    IF reqs = <<>> THEN <<>>
    ELSE server[Head(reqs)].results \o ConcatResults(server, Tail(reqs))

\* reqs is the chain of responses from the first one along the next links
IsChain(server, reqs) ==
    /\ reqs # <<>> /\ reqs[1] = 1
    /\ \A i \in 1..(Len(reqs) - 1) :
           server[reqs[i]].next # 0 /\ reqs[i + 1] = server[reqs[i]].next

\* C6: the result of get_confluence_pages is the concatenation, in order, of the
\* results of the first response and of every response reached along the next
\* links, each requested and appended once, up to the first response without a
\* next link.
C6_AllPagesInOrder ==
    pg_pc = "done" =>
        /\ IsChain(wiki_server, requested)
        /\ wiki_server[requested[Len(requested)]].next = 0
        /\ all_pages = ConcatResults(wiki_server, requested)

\* C6 happens: three responses were followed and the last one, which has no next
\* link, contributed its results.
C6_Witness ==
    /\ pg_pc = "done"
    /\ Len(requested) = 3
    /\ wiki_server[requested[3]].results # <<>>
    /\ Len(all_pages) >= 3

\* the number of pages of the wiki
NumPages == SumSeq([i \in 1..Len(wiki) |-> Len(wiki[i])])

\* C7: run twice in a row over the same unchanged pages, the second run of
\* write_confluence_data_to_blob_storage uploads nothing and counts every page
\* as skipped.
C7_SecondRunSkipsAll ==
    (bl_run = 2 /\ bl_pc = "done") =>
        /\ uploads = <<>>
        /\ total_skipped = NumPages
        /\ total_uploaded = 0 /\ total_updated = 0

\* C8: every chunk safe_chunks returns encodes to at most max_tokens tokens.
C8_ChunksWithinTokenLimit ==
    ch_pc = "done" => \A i \in 1..Len(safe) : Tokens(safe[i]) <= max_tokens

\* C9: the string returned by _smart_truncate_content has at most max_chars
\* characters, the first 20 lines and the line markers included.
C9_TruncatedWithinMaxChars == trunc_pc = "done" => PiecesLen(truncated) <= max_chars

\* C10: analyze_error never lets an exception out: it returns a dict with a
\* boolean 'success', with 'error' when success is False, and with 'analysis' and
\* 'files_analyzed' when success is True.
C10_AlwaysReturnsResult ==
    /\ an_result.outcome # "raised"
    /\ an_pc = "done" =>
        /\ an_result.outcome = "returned"
        /\ "success" \in an_result.keys /\ an_result.success \in BOOLEAN
        /\ ~an_result.success => "error" \in an_result.keys
        /\ an_result.success => {"analysis", "files_analyzed"} \subseteq an_result.keys

\* C10 happens: the progress callback raised after the files were found, and the
\* call returned the failure dict.
C10_Witness ==
    /\ an_pc = "done"
    /\ an_files # <<>>
    /\ Len(an_progress) = 3
    /\ an_result.outcome = "returned"
    /\ an_result.error = "analysis_failed"

\* C11 as stated: for a repository URL matching neither Azure DevOps pattern,
\* analyze_error ends with the 'Invalid repository URL' error and has sent no
\* request to the source-control API nor to the chat-completion API.
C11_InvalidUrlRejected ==
    (an_pc = "done" /\ ~MatchesAzurePattern(an_input.repo_url)) =>
        /\ an_result = ErrorResult("invalid_url")
        /\ an_requests = {}

\* C11 amended: for a repository URL matching neither Azure DevOps pattern,
\* analyze_error returns success False and has sent no request to either API;
\* the error is 'Invalid repository URL', unless the progress callback raised
\* on the first progress message (before parse_repo_url is called), in which
\* case it is the 'Analysis failed' error of the exception handler.
C11_InvalidUrlNoRequest ==
    (an_pc = "done" /\ ~MatchesAzurePattern(an_input.repo_url)) =>
        /\ an_requests = {}
        /\ an_result.outcome = "returned" /\ ~an_result.success
        /\ \/ an_result = ErrorResult("invalid_url")
           \/ /\ an_result = AnalysisFailed
              /\ an_input.callback = "function"
              /\ an_progress = <<>>

\* C11 happens: a URL on another host with a _git path was rejected after the
\* first progress message.
C11_Witness ==
    /\ an_pc = "done"
    /\ an_input.repo_url = [host |-> "github.com", git_path |-> TRUE]
    /\ an_progress = <<"parsing">>
    /\ an_result = ErrorResult("invalid_url")

\* C12: a request whose error_message or repo_url is empty or only blanks is
\* answered with status 400 (not 500), and neither analyze_error_with_ai nor
\* analyze_error is ever started for it.
C12_BlankRequestAnswered400 ==
    (Blank(api_request.error_message) \/ Blank(api_request.repo_url.host)) =>
        /\ ft_pc = "off" /\ an_pc = "off" /\ an_requests = {}
        /\ api_pc = "done" => api_response = [status |-> 400, updates |-> 0]

\* C12 happens: a request with an error message and a URL of blanks was answered.
C12_Witness ==
    /\ api_pc = "done"
    /\ api_request.error_message = "error"
    /\ api_request.repo_url.host = " "
    /\ api_response.status = 400

IsProgress(m) == m \in ProgressMessages
\* the position of the analysis text in what was yielded (0: not yielded)
AnalysisAt ==
    IF \E i \in 1..Len(ft_yielded) : ft_yielded[i] = "analysis"
    THEN CHOOSE i \in 1..Len(ft_yielded) : ft_yielded[i] = "analysis"
    ELSE 0

\* C13: when the generator of analyze_error_with_ai has ended, the progress
\* messages it yielded are exactly the messages analyze_error passed to the
\* progress callback, in the same order, and all come before the analysis text.
C13_ProgressYielded ==
    ft_pc = "done" =>
        /\ SelectSeq(ft_yielded, IsProgress) = an_progress
        /\ \A i \in 1..Len(ft_yielded) :
              (IsProgress(ft_yielded[i]) /\ AnalysisAt > 0) => i < AnalysisAt

\* C16: validate_inputs returns None exactly when the error message and the URL
\* are not blank and the URL names an Azure DevOps host; when it rejects,
\* analyze_error is never called and the generator yields the validation error
\* and nothing else.
C16_RejectedInputsYieldOneError ==
    LET message == ft_input.error_message
        repo_url == ft_input.repo_url
        rejected == \/ message \in {"", " "}
                    \/ repo_url.host \in {"", " "}
                    \/ repo_url.host \notin
                          {"dev.azure.com", "DEV.AZURE.COM", "org.visualstudio.com"}
    IN  /\ (validate_inputs(message, repo_url) = "none") <=> ~rejected
        /\ rejected =>
              /\ an_pc = "off" /\ an_progress = <<>> /\ an_requests = {}
              /\ ft_pc = "done" =>
                    /\ Len(ft_yielded) = 1
                    /\ ft_yielded[1] =
                          (IF message \in {"", " "} THEN "no_error_message"
                           ELSE IF repo_url.host \in {"", " "} THEN "no_repo_url"
                           ELSE "not_azure_devops")

\* C16 happens: a URL on another host was rejected with the one message.
C16_Witness ==
    /\ ft_pc = "done"
    /\ ft_input.error_message = "error"
    /\ ft_input.repo_url.host = "github.com"
    /\ ft_yielded = <<"not_azure_devops">>

\* the commits (by position) holding a file change to file_path
CommitsTouching(file_path) ==
    {c \in 1..Len(recent_commits) :
        \E k \in 1..Len(recent_commits[c]) :
            /\ recent_commits[c][k].gitObjectType = "blob"
            /\ LStripSlash(recent_commits[c][k].path) = file_path}

\* C14: in the list get_recently_changed_files returns each path appears at
\* most once, and the commit recorded for a path is the first commit of
\* recent_commits with a file change to that path.
C14_FirstCommitKept ==
    chg_pc = "done" =>
        /\ \A i, j \in 1..Len(changed_files) :
              i # j => changed_files[i].path # changed_files[j].path
        /\ \A i \in 1..Len(changed_files) :
              LET touching == CommitsTouching(changed_files[i].path) IN
              /\ touching # {}
              /\ \A c \in touching : changed_files[i].last_commit_id <= c
              /\ changed_files[i].last_commit_id \in touching

\* C14 happens: two commits changed a.cs (as "/a.cs" and as "a.cs"), and the
\* returned list holds it once.
C14_Witness ==
    /\ chg_pc = "done"
    /\ Len(recent_commits) = 2
    /\ CommitsTouching("a.cs") = {1, 2}
    /\ Len(changed_files) >= 2

RECURSIVE Flatten(_)
Flatten(batches) ==
    IF batches = <<>> THEN <<>> ELSE Head(batches) \o Flatten(Tail(batches))

\* C15: when the call has ended and no insertion raised, the store holds the
\* chunks, each once and in input order; the insertions took consecutive
\* batches of at most 100 chunks; the first created the store and each later
\* one added to that store.
C15_AllChunksInBatches ==
    (vs_pc \in {"returned", "raised"}
        /\ \A k \in 1..Len(vs_calls) : vs_calls[k].error = "ok") =>
        /\ vs_documents = vs_chunks
        /\ Flatten([k \in 1..Len(vs_calls) |-> vs_calls[k].batch]) = vs_chunks
        /\ \A k \in 1..Len(vs_calls) :
              /\ Len(vs_calls[k].batch) \in 1..100
              /\ vs_calls[k].call =
                    (IF k = 1 THEN "from_documents" ELSE "add_documents")
              /\ k > 1 => vs_calls[k].store = 1
        /\ vs_stores = (IF vs_chunks = <<>> THEN 0 ELSE 1)

\* C15 happens: 250 chunks were stored in three batches.
C15_Witness ==
    /\ vs_pc = "returned"
    /\ Len(vs_chunks) = 250
    /\ Len(vs_calls) = 3
    /\ Len(vs_documents) = 250

\* C18: an insertion that fails with a rate-limit error (in any case of
\* letters) is followed by one retry of the same batch; a successful insertion
\* is followed, if at all, by the first insertion of the next batch; an
\* insertion failing otherwise, and a failing retry, are the last call and the
\* exception leaves the function.
C18_RetryOnceOnRateLimit ==
    \A k \in 1..Len(vs_calls) :
        LET c == vs_calls[k]
            rate_limit == c.error \in {"rate limit exceeded", "Rate Limit reached"}
        IN  /\ (c.error # "ok" /\ ~c.retry /\ rate_limit) =>
                  /\ k < Len(vs_calls)
                  /\ vs_calls[k + 1].retry
                  /\ vs_calls[k + 1].batch = c.batch
            /\ (c.error # "ok" /\ (c.retry \/ ~rate_limit)) =>
                  /\ k = Len(vs_calls)
                  /\ vs_pc = "raised"
                  /\ Len(vs_documents) = c.batch[1] - 1
            /\ c.retry =>
                  /\ k > 1
                  /\ ~vs_calls[k - 1].retry
                  /\ vs_calls[k - 1].error \in {"rate limit exceeded", "Rate Limit reached"}
            /\ (c.error = "ok" /\ k < Len(vs_calls)) =>
                  /\ ~vs_calls[k + 1].retry
                  /\ vs_calls[k + 1].batch[1] = c.batch[Len(c.batch)] + 1

\* C18 happens: the second batch hit the rate limit, its retry succeeded and the
\* third batch was inserted.
C18_Witness ==
    /\ vs_pc = "returned"
    /\ Len(vs_calls) = 4
    /\ vs_calls[2].error = "Rate Limit reached"
    /\ vs_calls[3].retry /\ vs_calls[3].error = "ok"
    /\ vs_calls[4].batch[1] = 201

\* the AI answered: credentials present, the request returned, status 200, and
\* the body holds choices[0].message.content as a string
AiAvailable ==
    /\ pa_env.openai_key /\ pa_env.openai_url
    /\ ~pa_env.request_raises
    /\ pa_env.status_code = 200
    /\ pa_env.body = "content_text"

\* C17: perform_ai_analysis never raises; it returns the fallback template
\* exactly when the AI is not available, and the LLM text with the metadata
\* footer exactly on a well-formed 200 response.
C17_FallbackIffUnavailable ==
    pa_pc = "done" =>
        /\ ~pa_result.raised
        /\ (pa_result.value.kind = "fallback_template") <=> ~AiAvailable
        /\ (pa_result.value.kind = "ai_analysis_with_metadata") <=> AiAvailable

\* C17 happens: a 200 response without choices gave the fallback template.
C17_Witness ==
    /\ pa_pc = "done"
    /\ pa_env.openai_key /\ pa_env.openai_url /\ ~pa_env.request_raises
    /\ pa_env.status_code = 200 /\ pa_env.body = "no_choices"
    /\ pa_result.value.kind = "fallback_template"

\* the position in all_files of the file with this path (its paths are distinct)
InputPosition(path) == CHOOSE j \in 1..Len(all_files) : all_files[j].path = path
ScoreOfPath(path) == FileScore(all_files[InputPosition(path)], error_message)

\* C19: when the selection is the fallback's (the LLM gave no usable answer),
\* every returned path is of an input file whose score is above zero, scores
\* do not increase along the result, files of equal score stand in their input
\* order, and an input without a file scoring above zero gives the empty list.
C19_FallbackRanksByScore ==
    (sel_pc = "done" /\ all_files # <<>> /\ NoUsableAnswer) =>
        /\ \A i \in 1..Len(sel_result) :
              /\ \E j \in 1..Len(all_files) : all_files[j].path = sel_result[i]
              /\ ScoreOfPath(sel_result[i]) > 0
        /\ \A i, k \in 1..Len(sel_result) :
              i < k =>
                /\ ScoreOfPath(sel_result[i]) >= ScoreOfPath(sel_result[k])
                /\ ScoreOfPath(sel_result[i]) = ScoreOfPath(sel_result[k]) =>
                      InputPosition(sel_result[i]) < InputPosition(sel_result[k])
        /\ (\A j \in 1..Len(all_files) : FileScore(all_files[j], error_message) <= 0)
              => sel_result = <<>>

\* C19 happens: two files of equal score came back in their input order, the
\* second file of the input first and the third second.
C19_Witness ==
    /\ sel_pc = "done" /\ llm.kind = "status_not_200"
    /\ Len(all_files) = 3 /\ Len(sel_result) = 2
    /\ sel_result = <<all_files[2].path, all_files[3].path>>
    /\ ScoreOfPath(sel_result[1]) = ScoreOfPath(sel_result[2])

\* C20: the files with a section in the context are the first files_included
\* files of relevant_files, in order; when a file's section did not fit, it and
\* every later file are named by the omission notice, in order, and included
\* and omitted files add up to the input; when every section fit there is no
\* notice.
C20_GreedyPrefixPacking ==
    ctx_pc = "done" =>
        LET n == Len(relevant_files) IN
        /\ included = [i \in 1..files_included |-> i]
        /\ files_included <= n
        /\ IF files_included < n
           THEN /\ current_length
                     + FileSectionLen(relevant_files[files_included + 1],
                                      MaxFileChars(current_length, n, files_included))
                   > MAX_CHARS
                /\ Len(omitted) = n - files_included
                /\ \A i \in 1..Len(omitted) :
                      omitted[i] = relevant_files[files_included + i].path
                /\ Len(included) + Len(omitted) = n
           ELSE omitted = <<>>

\* C20 happens: the first of two files was packed, the second did not fit and
\* the notice names it.
C20_Witness ==
    /\ ctx_pc = "done"
    /\ Len(relevant_files) = 2
    /\ included = <<1>>
    /\ omitted = <<relevant_files[2].path>>

\* C21: every path ai_select_relevant_files returns is the path of a file of
\* all_files, and no path is returned twice.
C21_SelectedPathsOfInputOnce ==
    sel_pc = "done" =>
        /\ \A i \in 1..Len(sel_result) :
              \E j \in 1..Len(all_files) : all_files[j].path = sel_result[i]
        /\ \A i, k \in 1..Len(sel_result) :
              i # k => sel_result[i] # sel_result[k]

\* C22: in every run of _extract_error_specific_files the found files never
\* exceed max_files, search_for_files is never called with a depth above 4 and
\* never has more than 5 calls active, and the call ends.
C22_SearchBoundedAndEnds ==
    /\ [](/\ Len(found_files) <= es_max_files
          /\ es_deepest <= 4
          /\ Len(es_stack) <= 5
          /\ \A k \in 1..Len(es_stack) : es_stack[k].depth = k - 1)
    /\ <>(es_pc = "done")

\* C22 happens: the root lists itself, the search went down to depth 4 and
\* ended with max_files files found.
C22_Witness ==
    /\ es_pc = "done"
    /\ es_listings[""] # <<>>
    /\ es_listings[""][1] = [type |-> "dir", path |-> "", name |-> ""]
    /\ es_deepest = 4
    /\ es_max_files = 2 /\ Len(found_files) = 2

\* C23: an error while processing one page (text extraction, blob download or
\* upload) is printed and does not stop the run: the page leaves the blobs of
\* the other pages as they were, and at the end of the run every page of every
\* space was processed.
C23_PageErrorPrintedRunContinues ==
    /\ \A k \in 1..Len(bl_log) :
          bl_log[k].errors # {} =>
              /\ bl_log[k].error_printed
              /\ bl_log[k].changed \subseteq {bl_log[k].blob}
    /\ bl_pc = "done" =>
          \A s \in 1..Len(wiki) : \A i \in 1..Len(wiki[s]) :
              \E k \in 1..Len(bl_log) : bl_log[k].space = s /\ bl_log[k].page = i

\* C25: at the end of a run the counters of the summary match what happened in
\* the storage: "New uploads" is the number of blobs that did not exist and
\* were written, "Updated" the number of existing blobs that were replaced and
\* "Skipped" the number of pages left untouched without an error.
C25_CountersMatchStorage ==
    bl_pc = "done" =>
        /\ total_uploaded =
              Cardinality({k \in 1..Len(bl_log) : ~bl_log[k].existed /\ bl_log[k].wrote})
        /\ total_updated =
              Cardinality({k \in 1..Len(bl_log) : bl_log[k].existed /\ bl_log[k].wrote})
        /\ total_skipped =
              Cardinality({k \in 1..Len(bl_log) : ~bl_log[k].wrote /\ bl_log[k].errors = {}})

\* C24: get_confluence_pages ends for every sequence of server responses: the
\* loop never requests the same next link twice (a link requested again leads
\* to the same response and the same link, so the loop would go on for ever).
C24_NoNextLinkRequestedTwice ==
    \A i, j \in 2..Len(requested) : i # j => requested[i] # requested[j]

\* C26: after a run every fetched page has its own stored document holding the
\* text of that page: two distinct pages, of one space or of two, have neither
\* the same blob name nor the same file name.
C26_EveryPageOwnDocument ==
    (bl_run = 1 /\ bl_pc = "done") =>
        /\ \A s \in 1..Len(wiki) : \A i \in 1..Len(wiki[s]) :
              /\ Exists(blobs, BlobName(Space_Keys[s], wiki[s][i]))
              /\ ContentOf(blobs, BlobName(Space_Keys[s], wiki[s][i]))
                     = NewContent(Space_Keys[s], i, wiki[s][i])
        /\ \A s, t \in 1..Len(wiki) : \A i \in 1..Len(wiki[s]) : \A j \in 1..Len(wiki[t]) :
              <<s, i>> # <<t, j>> =>
                  /\ BlobName(Space_Keys[s], wiki[s][i]) # BlobName(Space_Keys[t], wiki[t][j])
                  /\ FileName(wiki[s][i]) # FileName(wiki[t][j])

\* C27: in an update of the knowledge base the chunking of the documents
\* (process_confluence_data reading File_Dir) runs only when the fetch thread of
\* the update has stopped writing to File_Dir, also after the fetch timeout.
C27_ChunkingAfterFetchStopped ==
    \A u \in Updates : ui_pc[u] = "chunk" => fetch_pc[u] # "running"

\* C28: when every update that was started has finished, sys.stdout is the
\* stream it was before the first update began.
C28_StdoutRestored ==
    (\A u \in Updates : ui_pc[u] \in {"idle", "done"}) => sys_stdout = OriginalStdout
====
